---- MODULE Spec2Model ----
(***************************************************************************)
(* Model of the chess.com aggregation service (chessApi): fetchJson,       *)
(* getUtcRefreshKey, getMonthUrlsFromJoined, fetchMonthlyArchives,         *)
(* fetchRapidHistory, with window.localStorage, the wall clock and the     *)
(* remote API as the environment.                                          *)
(*                                                                         *)
(* Encodings.  A JavaScript string that the code inspects (a handle, an    *)
(* ISO date, a URL) is a sequence of one-character strings or of tokens,   *)
(* so that toLowerCase, padStart, slice and localeCompare are computed.    *)
(* A JavaScript value of unknown type (profile.joined, a rating) is a      *)
(* record [type, value] with type the result of typeof.  A string held by  *)
(* localStorage is a record [kind, value]: kind "json" is the text that    *)
(* JSON.stringify produced for value, kind "garbage" is text JSON.parse    *)
(* rejects, kind "empty" is the empty string, kind "absent" is null.       *)
(***************************************************************************)
EXTENDS Integers, Sequences, FiniteSets, TLC

(***************************************************************************)
(* Bounds of the model.                                                    *)
(***************************************************************************)
\* number of 12-hour steps the wall clock may advance
MaxTicks == 1
\* longest game collection handed to the reducer in SpecReduce
MaxGames == 3
\* longest URL list handed to fetchMonthlyArchives in SpecFetch
MaxUrls == 4
\* largest chunkSize argument tried in SpecFetch
MaxChunk == 2

(***************************************************************************)
(* Strings.                                                                *)
(***************************************************************************)
HISTORY_CACHE_PREFIX == "chess-rapid-history-v3"

\* String.prototype.toLowerCase on one character (the alphabet of the model)
LowerChar(c) ==
    CASE c = "A" -> "a"
      [] c = "B" -> "b"
      [] c = "C" -> "c"
      [] OTHER -> c

toLowerCase(s) == [i \in 1..Len(s) |-> LowerChar(s[i])]

\* code unit order of the characters an ISO date is made of
CharCode(c) ==
    CASE c = "-" -> 45
      [] c = "0" -> 48 [] c = "1" -> 49 [] c = "2" -> 50 [] c = "3" -> 51
      [] c = "4" -> 52 [] c = "5" -> 53 [] c = "6" -> 54 [] c = "7" -> 55
      [] c = "8" -> 56 [] c = "9" -> 57

DigitChar(d) ==
    CASE d = 0 -> "0" [] d = 1 -> "1" [] d = 2 -> "2" [] d = 3 -> "3"
      [] d = 4 -> "4" [] d = 5 -> "5" [] d = 6 -> "6" [] d = 7 -> "7"
      [] d = 8 -> "8" [] d = 9 -> "9"

RECURSIVE NumberToString(_)
\* String(n) for an integer n >= 0
NumberToString(n) ==
    IF n < 10 THEN <<DigitChar(n)>>
    ELSE NumberToString(n \div 10) \o <<DigitChar(n % 10)>>

RECURSIVE padStart(_, _, _)
\* String.prototype.padStart(width, fill) for a one-character fill
padStart(s, width, fill) ==
    IF Len(s) >= width THEN s ELSE padStart(<<fill>> \o s, width, fill)

RECURSIVE localeCompare(_, _)
\* a.localeCompare(b) on strings of digits and "-": -1, 0 or 1
localeCompare(a, b) ==
    IF a = <<>> /\ b = <<>> THEN 0
    ELSE IF a = <<>> THEN -1
    ELSE IF b = <<>> THEN 1
    ELSE IF CharCode(Head(a)) < CharCode(Head(b)) THEN -1
    ELSE IF CharCode(Head(a)) > CharCode(Head(b)) THEN 1
    ELSE localeCompare(Tail(a), Tail(b))

(***************************************************************************)
(* Dates.  Epochs are seconds since 1970-01-01T00:00:00Z.                  *)
(***************************************************************************)
\* the civil date <<year, month, day>> (UTC) of an epoch >= 0, as the Date
\* getters getUTCFullYear / getUTCMonth()+1 / getUTCDate compute it
UtcCivil(epoch) ==
    LET z   == (epoch \div 86400) + 719468
        era == z \div 146097
        doe == z - era * 146097
        yoe == (doe - doe \div 1460 + doe \div 36524 - doe \div 146096) \div 365
        doy == doe - (365 * yoe + yoe \div 4 - yoe \div 100)
        mp  == (5 * doy + 2) \div 153
        d   == doy - (153 * mp + 2) \div 5 + 1
        m   == IF mp < 10 THEN mp + 3 ELSE mp - 9
        y   == yoe + era * 400 + (IF m <= 2 THEN 1 ELSE 0)
    IN  <<y, m, d>>

\* the first ten characters of Date.prototype.toISOString: YYYY-MM-DD
IsoDay(epoch) ==
    LET c == UtcCivil(epoch)
    IN  padStart(NumberToString(c[1]), 4, "0") \o <<"-">>
        \o padStart(NumberToString(c[2]), 2, "0") \o <<"-">>
        \o padStart(NumberToString(c[3]), 2, "0")

\* utils/formatting toIsoDate(epochSeconds): the UTC calendar day of a game
toIsoDate(end_time) == IsoDay(end_time)

\* getUtcRefreshKey(now): now.toISOString().slice(0, 10)
getUtcRefreshKey(nowEpoch) == IsoDay(nowEpoch)

(***************************************************************************)
(* JavaScript values and game records.                                     *)
(***************************************************************************)
Num(n) == [type |-> "number", value |-> n]
Undefined == [type |-> "undefined", value |-> 0]
StringValue == [type |-> "string", value |-> 0]
NaNValue == [type |-> "number", value |-> -1]
InfinityValue == [type |-> "number", value |-> -2]

\* Number.isFinite(v): a number that is not NaN or an infinity (NaNValue and
\* InfinityValue are the non-finite numbers of the model)
NumberIsFinite(v) == v.type = "number" /\ v \notin {NaNValue, InfinityValue}

\* a participant object {username, rating}; NoSide is a missing one
Side(username, rating) ==
    [present |-> TRUE, username |-> username, rating |-> rating]
NoSide == [present |-> FALSE, username |-> <<>>, rating |-> Undefined]

Game(end_time, time_class, rated, white, black) ==
    [end_time |-> end_time, time_class |-> time_class, rated |-> rated,
     white |-> white, black |-> black]

(***************************************************************************)
(* The reducer: lines 92-114 of fetchRapidHistory.                         *)
(***************************************************************************)
rapidFilterAnyRated(monthlyGames) ==
    SelectSeq(monthlyGames, LAMBDA game : game.time_class = "rapid")
\* monthlyGames.filter(game => game.time_class === "rapid" && game.rated)
rapidFilter(monthlyGames) ==
    SelectSeq(monthlyGames, LAMBDA game : game.time_class = "rapid" /\ game.rated)

RECURSIVE sortByEndTimeAsc(_)
\* Array.prototype.sort((a, b) => a.end_time - b.end_time): stable, so an
\* element goes after every earlier element that does not compare greater
sortByEndTimeAsc(games) ==
    IF games = <<>> THEN <<>>
    ELSE LET init == sortByEndTimeAsc(SubSeq(games, 1, Len(games) - 1))
             g    == games[Len(games)]
             k    == Cardinality({j \in 1..Len(init) : init[j].end_time - g.end_time <= 0})
         IN  SubSeq(init, 1, k) \o <<g>> \o SubSeq(init, k + 1, Len(init))

\* the filter and sort that build rapidGames (lines 94-96)
rapidGamesOf(monthlyGames) == sortByEndTimeAsc(rapidFilter(monthlyGames))

\* line 109: a stored sample is replaced only by a strictly later game
replacesPreviousOrEqual(game, previous) == game.end_time >= previous.epoch
replacesPreviousFirstWins(game, previous) == game.end_time < previous.epoch
replacesPrevious(game, previous) == game.end_time > previous.epoch

\* lines 99-101: the colour the player has in the game, "null" for neither
colorOf(game, normalizedUsername) ==
    LET isWhite == game.white.present
                   /\ toLowerCase(game.white.username) = normalizedUsername
        isBlack == game.black.present
                   /\ toLowerCase(game.black.username) = normalizedUsername
    IN  IF isWhite THEN "white" ELSE IF isBlack THEN "black" ELSE "null"

\* one iteration of the loop of lines 98-112; historyMap is the Map as the
\* sequence of its values in insertion order
historyStep(historyMap, game, normalizedUsername) ==
    LET color == colorOf(game, normalizedUsername)
    IN  IF color = "null" THEN historyMap
        ELSE LET rating == game[color].rating
             IN  IF rating.type # "number" THEN historyMap
                 ELSE LET date   == toIsoDate(game.end_time)
                          at     == {j \in 1..Len(historyMap) : historyMap[j].date = date}
                          sample == [date |-> date, rating |-> rating.value,
                                     epoch |-> game.end_time]
                      IN  IF at = {} THEN Append(historyMap, sample)
                          ELSE LET j == CHOOSE j \in at : TRUE
                               IN  IF replacesPrevious(game, historyMap[j])
                                   THEN [historyMap EXCEPT ![j] = sample]
                                   ELSE historyMap

RECURSIVE historyLoop(_, _, _)
\* the for loop of lines 98-112 over rapidGames, from historyMap
historyLoop(historyMap, rapidGames, normalizedUsername) ==
    IF rapidGames = <<>> THEN historyMap
    ELSE historyLoop(historyStep(historyMap, Head(rapidGames), normalizedUsername),
                     Tail(rapidGames), normalizedUsername)

RECURSIVE sortByDateDescending(_)
sortByDateDescending(samples) ==
    IF samples = <<>> THEN <<>>
    ELSE LET init == sortByDateDescending(SubSeq(samples, 1, Len(samples) - 1))
             s    == samples[Len(samples)]
             k    == Cardinality({j \in 1..Len(init) : localeCompare(s.date, init[j].date) <= 0})
         IN  SubSeq(init, 1, k) \o <<s>> \o SubSeq(init, k + 1, Len(init))

RECURSIVE sortByDate(_)
\* [...historyMap.values()].sort((a, b) => a.date.localeCompare(b.date))
sortByDate(samples) ==
    IF samples = <<>> THEN <<>>
    ELSE LET init == sortByDate(SubSeq(samples, 1, Len(samples) - 1))
             s    == samples[Len(samples)]
             k    == Cardinality({j \in 1..Len(init) : localeCompare(init[j].date, s.date) <= 0})
         IN  SubSeq(init, 1, k) \o <<s>> \o SubSeq(init, k + 1, Len(init))

\* lines 92-114: the history series of a game collection
reduceHistory(monthlyGames, normalizedUsername) ==
    sortByDate(historyLoop(<<>>, rapidGamesOf(monthlyGames), normalizedUsername))

mutualFilterThrowsOnMissingWhite(allGames) ==
    \E k \in 1..Len(allGames) :
        /\ allGames[k].time_class = "rapid" /\ allGames[k].rated
        /\ ~allGames[k].white.present

(***************************************************************************)
(* The head-to-head filter and sort: lines 149-161 of fetchGamesBetween.   *)
(***************************************************************************)
\* the callback of line 150 throws a TypeError on a rated rapid game that
\* lacks a participant (game.white.username, game.black.username)
mutualFilterThrows(allGames) ==
    \E k \in 1..Len(allGames) :
        /\ allGames[k].time_class = "rapid" /\ allGames[k].rated
        /\ ~allGames[k].white.present \/ ~allGames[k].black.present

mutualFilterOneColour(allGames, p1, p2) ==
    SelectSeq(allGames, LAMBDA game :
        IF game.time_class # "rapid" \/ ~game.rated THEN FALSE
        ELSE toLowerCase(game.white.username) = p1 /\ toLowerCase(game.black.username) = p2)
\* allGames.filter(...) of lines 150-158
mutualFilter(allGames, p1, p2) ==
    SelectSeq(allGames, LAMBDA game :
        IF game.time_class # "rapid" \/ ~game.rated THEN FALSE
        ELSE LET white == toLowerCase(game.white.username)
                 black == toLowerCase(game.black.username)
             IN  (white = p1 /\ black = p2) \/ (white = p2 /\ black = p1))

sortByEndTimeOldestFirst(games) == sortByEndTimeAsc(games)
RECURSIVE sortByEndTimeDesc(_)
\* Array.prototype.sort((a, b) => b.end_time - a.end_time), stable
sortByEndTimeDesc(games) ==
    IF games = <<>> THEN <<>>
    ELSE LET init == sortByEndTimeDesc(SubSeq(games, 1, Len(games) - 1))
             g    == games[Len(games)]
             k    == Cardinality({j \in 1..Len(init) : g.end_time - init[j].end_time <= 0})
         IN  SubSeq(init, 1, k) \o <<g>> \o SubSeq(init, k + 1, Len(init))

\* lines 149-161: the games fetchGamesBetween returns
mutualGamesOf(allGames, p1, p2) == sortByEndTimeDesc(mutualFilter(allGames, p1, p2))

(***************************************************************************)
(* URLs.  A URL is the record of the variable parts of its template.       *)
(***************************************************************************)
profileUrl(username) ==
    [endpoint |-> "player", player |-> username, year |-> <<>>, mm |-> <<>>]
archivesUrl(username) ==
    [endpoint |-> "archives", player |-> username, year |-> <<>>, mm |-> <<>>]
monthUrl(username, year, mm) ==
    [endpoint |-> "games", player |-> username, year |-> NumberToString(year), mm |-> mm]

(***************************************************************************)
(* The planner: getMonthUrlsFromJoined (lines 17-42).                      *)
(***************************************************************************)
RECURSIVE monthLoopExclusive(_, _, _, _, _, _)
monthLoopExclusive(username, year, month, endYear, endMonth, urls) ==
    IF year < endYear \/ (year = endYear /\ month < endMonth)
    THEN LET mm == padStart(NumberToString(month), 2, "0")
             pushed == Append(urls, monthUrl(username, year, mm))
         IN  IF month + 1 > 12
             THEN monthLoopExclusive(username, year + 1, 1, endYear, endMonth, pushed)
             ELSE monthLoopExclusive(username, year, month + 1, endYear, endMonth, pushed)
    ELSE urls

RECURSIVE monthLoopDoWhile(_, _, _, _, _, _)
monthLoopDoWhile(username, year, month, endYear, endMonth, urls) ==
    LET mm == padStart(NumberToString(month), 2, "0")
        pushed == Append(urls, monthUrl(username, year, mm))
        next == IF month + 1 > 12 THEN <<year + 1, 1>> ELSE <<year, month + 1>>
    IN  IF next[1] < endYear \/ (next[1] = endYear /\ next[2] <= endMonth)
        THEN monthLoopDoWhile(username, next[1], next[2], endYear, endMonth, pushed)
        ELSE pushed

RECURSIVE monthLoop(_, _, _, _, _, _)
\* the while loop of lines 30-39
monthLoop(username, year, month, endYear, endMonth, urls) ==
    IF year < endYear \/ (year = endYear /\ month <= endMonth)
    THEN LET mm == padStart(NumberToString(month), 2, "0")
             pushed == Append(urls, monthUrl(username, year, mm))
         IN  IF month + 1 > 12
             THEN monthLoop(username, year + 1, 1, endYear, endMonth, pushed)
             ELSE monthLoop(username, year, month + 1, endYear, endMonth, pushed)
    ELSE urls

\* getMonthUrlsFromJoined(username, joinedEpoch) evaluated at clock nowEpoch
getMonthUrlsFromJoined(username, joinedEpoch, nowEpoch) ==
    IF ~NumberIsFinite(joinedEpoch) THEN <<>>
    ELSE LET start   == UtcCivil(joinedEpoch.value)
             current == UtcCivil(nowEpoch)
         IN  monthLoop(username, start[1], start[2], current[1], current[2], <<>>)

(***************************************************************************)
(* localStorage strings and JSON.                                          *)
(***************************************************************************)
\* the object fetchRapidHistory stores; history is [isArray, items] so that
\* a stored entry whose history is not an array can be told apart
Entry(refreshKey, history, savedAt) ==
    [refreshKey |-> refreshKey, history |-> history, savedAt |-> savedAt]
ArrayOf(items) == [isArray |-> TRUE, items |-> items]
NotAnArray == [isArray |-> FALSE, items |-> <<>>]
NoEntry == Entry(<<>>, NotAnArray, <<>>)

\* new Date().toISOString(): the day and the time of day
toISOString(nowEpoch) == <<IsoDay(nowEpoch), nowEpoch % 86400>>

JSONstringify(entry) == [kind |-> "json", value |-> entry]
AbsentItem == [kind |-> "absent", value |-> NoEntry]
EmptyItem == [kind |-> "empty", value |-> NoEntry]
GarbageItem == [kind |-> "garbage", value |-> NoEntry]

\* whether JSON.parse(raw) throws
JSONparseThrows(raw) == raw.kind # "json"
JSONparse(raw) == raw.value

\* `${HISTORY_CACHE_PREFIX}:${name}`
cacheKeyOf(name) == <<HISTORY_CACHE_PREFIX, ":">> \o name

\* lines 65-66: the key fetchRapidHistory(username) reads and writes
cacheKeyForRawName(username) == cacheKeyOf(username)
cacheKeyFor(username) == cacheKeyOf(toLowerCase(username))

\* line 73: the test a parsed entry must pass to be returned
entryIsFreshIgnoringDay(cached, refreshKey) == cached.history.isArray
entryIsFreshIgnoringArray(cached, refreshKey) == cached.refreshKey = refreshKey
entryIsFreshInverted(cached, refreshKey) ==
    cached.refreshKey # refreshKey /\ cached.history.isArray
entryIsFresh(cached, refreshKey) ==
    cached.refreshKey = refreshKey /\ cached.history.isArray

\* lines 69-79: the cache lookup; getThrows is localStorage.getItem throwing.
\* The result is [hit, history]: hit means line 74 returns history.
cacheLookup(cachedRaw, refreshKey, getThrows) ==
    IF getThrows THEN [hit |-> FALSE, history |-> <<>>]
    ELSE IF cachedRaw.kind \in {"absent", "empty"} THEN [hit |-> FALSE, history |-> <<>>]
    ELSE IF JSONparseThrows(cachedRaw) THEN [hit |-> FALSE, history |-> <<>>]
    ELSE IF entryIsFresh(JSONparse(cachedRaw), refreshKey)
         THEN [hit |-> TRUE, history |-> JSONparse(cachedRaw).history.items]
         ELSE [hit |-> FALSE, history |-> <<>>]

(***************************************************************************)
(* The universe of the model: handles, instants, games, URLs.              *)
(***************************************************************************)
al == <<"a", "l">>
Al == <<"A", "l">>
bo == <<"b", "o">>
cy == <<"c", "y">>
\* the handles callers pass; Players are their lower-cased forms
Handles == {al, Al, bo}
Players == {toLowerCase(h) : h \in Handles}

\* the instant n days after 2024-01-01T00:00:00Z
Day(n) == 1704067200 + n * 86400
\* 2024-01-10T18:00:00Z
StartOfClock == Day(9) + 18 * 3600
TickSeconds == 12 * 3600

\* rated rapid games of al: two on 2023-12-30, one on 2023-12-31, one on
\* 2024-01-02; gTie ends with gLate but carries another rating
gEarly == Game(Day(-2) + 100, "rapid", TRUE, Side(Al, Num(1500)), Side(cy, Num(1400)))
gLate == Game(Day(-2) + 200, "rapid", TRUE, Side(cy, Num(1410)), Side(al, Num(1510)))
gTie == Game(Day(-2) + 200, "rapid", TRUE, Side(al, Num(1490)), Side(bo, Num(1300)))
gNextDay == Game(Day(-1) + 50, "rapid", TRUE, Side(al, Num(1520)), Side(cy, Num(1400)))
gJan == Game(Day(1) + 10, "rapid", TRUE, Side(bo, Num(1310)), Side(al, Num(1530)))
\* games the reducer must not count for al
gBlitz == Game(Day(1) + 20, "blitz", TRUE, Side(al, Num(1700)), Side(cy, Num(1400)))
gUnrated == Game(Day(-2) + 300, "rapid", FALSE, Side(al, Num(1600)), Side(cy, Num(1400)))
gOthers == Game(Day(-2) + 400, "rapid", TRUE, Side(bo, Num(1320)), Side(cy, Num(1400)))
gNoRating == Game(Day(-2) + 500, "rapid", TRUE, Side(al, StringValue), Side(cy, Num(1400)))

GamePool == {gEarly, gLate, gTie, gNextDay, gJan, gBlitz, gUnrated, gOthers, gNoRating}

\* more games of al and bo: a second rated rapid game on 2023-12-30, an
\* unrated one and one of another time class
gRematch == Game(Day(-2) + 250, "rapid", TRUE, Side(bo, Num(1290)), Side(Al, Num(1500)))
gFriendly == Game(Day(-1) + 70, "rapid", FALSE, Side(al, Num(1500)), Side(bo, Num(1290)))
gBullet == Game(Day(1) + 30, "bullet", TRUE, Side(bo, Num(1200)), Side(al, Num(1450)))

\* rated rapid records of 2024-01-02 that lack a participant object
gNoWhite == Game(Day(1) + 40, "rapid", TRUE, NoSide, Side(al, Num(1540)))
gNoBlack == Game(Day(1) + 50, "rapid", TRUE, Side(bo, Num(1330)), NoSide)
RecordPool == {gNoWhite, gNoBlack, gJan, gEarly}

BetweenPool == {gTie, gRematch, gJan, gEarly, gOthers, gFriendly, gBullet}

decUrl(player) == monthUrl(player, 2023, <<"1", "2">>)
janUrl(player) == monthUrl(player, 2024, <<"0", "1">>)
MonthUrls == {decUrl(p) : p \in Players} \cup {janUrl(p) : p \in Players}

\* the archives field of an archive-index body
ArchivesAbsent == [present |-> FALSE, urls |-> <<>>]
ArchivesOf(urls) == [present |-> TRUE, urls |-> urls]

(***************************************************************************)
(* State.                                                                  *)
(***************************************************************************)
VARIABLES
    now,        \* the wall clock, epoch seconds
    store,      \* window.localStorage: key -> stored string
    remote,     \* what api.chess.com holds: joined, archives, games
    inflight,   \* the requests fetch has issued and not yet settled
    calls       \* the calls of the exported functions, by caller

vars == <<now, store, remote, inflight, calls>>

CallIds == {"first", "later"}

\* the keys of the store the model follows
StoreKeys == {cacheKeyOf(h) : h \in Handles}

\* a call that has not been made.  For a fetchGamesBetween call username
\* and normalizedUsername hold player1 and p1, player2 and p2 the second
\* player; joinedEpoch and planned are the argument and the result of
\* getMonthUrlsFromJoined, profileOutcome and indexOutcome the way the two
\* planning requests ended
IdleCall ==
    [kind |-> "history", pc |-> "idle", username |-> <<>>,
     normalizedUsername |-> <<>>, player2 |-> <<>>, p2 |-> <<>>,
     refreshKey |-> <<>>, startedAt |-> 0,
     getThrew |-> FALSE, cachedRaw |-> AbsentItem, cacheHit |-> FALSE,
     error |-> "none", profileOutcome |-> "none", indexOutcome |-> "none",
     joinedEpoch |-> Undefined, planned |-> <<>>,
     monthUrls |-> <<>>, chunkSize |-> 0, i |-> 0, settled |-> <<>>,
     settleOrder |-> <<>>, allGames |-> <<>>, requests |-> <<>>,
     wrote |-> "no", result |-> <<>>]

Request(c, url, pos) == [call |-> c, url |-> url, pos |-> pos]

PendingResult == [status |-> "pending", value |-> NotAnArray]

\* the ways a fetchJson call ends: "ok" resolves with the parsed body;
\* "status" (line 8), "network" (fetch rejects) and "json" (response.json
\* rejects) reject
FetchOutcomes == {"ok", "status", "network", "json"}

\* whether the promise of fetchJson rejects (lines 5-11)
fetchJsonRejectsOnlyOffline(outcome) == outcome = "network"
fetchJsonRejects(outcome) == outcome # "ok"

\* the test of lines 84-85 and 142-143: the planned months are used when
\* there is one, the archive index is asked for otherwise
usesPlannedMonthsAlways(monthUrls) == TRUE
usesPlannedMonths(monthUrls) == Len(monthUrls) > 0

Min(a, b) == IF a < b THEN a ELSE b

(***************************************************************************)
(* fetchMonthlyArchives (lines 44-62).                                     *)
(***************************************************************************)
\* the positions in monthUrls of the chunk being awaited:
\* monthUrls.slice(i, i + chunkSize)
chunkPositions(call) ==
    (call.i + 1) .. Min(call.i + call.chunkSize, Len(call.monthUrls))

chunkRequestsFirstOnly(c, monthUrls, i, chunkSize) ==
    {Request(c, monthUrls[k], k) : k \in (i + 1) .. Min(i + 1, Len(monthUrls))}

chunkRequestsOverlapping(c, monthUrls, i, chunkSize) ==
    {Request(c, monthUrls[k], k) :
        k \in (IF i = 0 THEN 1 ELSE i) .. Min(i + chunkSize, Len(monthUrls))}
\* the requests line 53 issues for the chunk that starts at index i
chunkRequests(c, monthUrls, i, chunkSize) ==
    {Request(c, monthUrls[k], k) : k \in (i + 1) .. Min(i + chunkSize, Len(monthUrls))}

\* where a call resumes when fetchMonthlyArchives returns
afterArchives(call) ==
    IF call.kind = "archives"
    THEN [call EXCEPT !.pc = "returned", !.result = call.allGames]
    ELSE IF call.kind = "between" THEN [call EXCEPT !.pc = "filter"]
    ELSE [call EXCEPT !.pc = "reduce"]

\* fetchMonthlyArchives up to its first await: with no URL it returns at
\* once, otherwise the first chunk is issued
enterArchives(call, monthUrls, chunkSize) ==
    LET entered == [call EXCEPT !.monthUrls = monthUrls, !.chunkSize = chunkSize,
                                !.i = 0, !.allGames = <<>>, !.settleOrder = <<>>,
                                !.settled = [k \in 1..Len(monthUrls) |-> PendingResult]]
    IN  IF Len(monthUrls) = 0 THEN afterArchives(entered)
        ELSE [entered EXCEPT !.pc = "batch",
                             !.requests = @ \o SubSeq(monthUrls, 1, Min(chunkSize, Len(monthUrls)))]

\* Promise.allSettled: the await of line 53 resumes when no request of the
\* chunk is pending
chunkSettledAny(call) ==
    \E k \in chunkPositions(call) : call.settled[k].status # "pending"
chunkSettled(call) ==
    \A k \in chunkPositions(call) : call.settled[k].status # "pending"

RECURSIVE gamesOfSettledUntilFailure(_, _, _)
gamesOfSettledUntilFailure(settled, from, to) ==
    IF from > to THEN <<>>
    ELSE IF settled[from].status # "fulfilled" THEN <<>>
    ELSE (IF settled[from].value.isArray THEN settled[from].value.items ELSE <<>>)
         \o gamesOfSettledUntilFailure(settled, from + 1, to)

RECURSIVE gamesOfSettledLastFirst(_, _, _)
gamesOfSettledLastFirst(settled, from, to) ==
    IF from > to THEN <<>>
    ELSE gamesOfSettledLastFirst(settled, from + 1, to)
         \o (IF settled[from].status # "fulfilled" THEN <<>>
             ELSE IF settled[from].value.isArray THEN settled[from].value.items
             ELSE <<>>)

RECURSIVE gamesOfSettled(_, _, _)
\* lines 54-58: the games the results from..to add to allGames, in the
\* order of the chunk
gamesOfSettled(settled, from, to) ==
    IF from > to THEN <<>>
    ELSE (IF settled[from].status # "fulfilled" THEN <<>>
          ELSE IF settled[from].value.isArray THEN settled[from].value.items
          ELSE <<>>)
         \o gamesOfSettled(settled, from + 1, to)

(***************************************************************************)
(* The steps of the calls.  A step is what runs between two awaits.        *)
(***************************************************************************)
\* the default of the chunkSize parameter (line 44)
DefaultChunkSize == 8

\* fetchRapidHistory(username) up to its first await (lines 64-81): the
\* cache lookup, then either the return of line 74 or the profile request
CallHistory(c, username) ==
    /\ calls[c].pc = "idle"
    /\ \E getThrows \in BOOLEAN :
         LET normalizedUsername == toLowerCase(username)
             cacheKey   == cacheKeyFor(username)
             refreshKey == getUtcRefreshKey(now)
             cachedRaw  == IF getThrows THEN AbsentItem ELSE store[cacheKey]
             found      == cacheLookup(cachedRaw, refreshKey, getThrows)
             entered    == [IdleCall EXCEPT !.kind = "history",
                                            !.username = username,
                                            !.normalizedUsername = normalizedUsername,
                                            !.refreshKey = refreshKey,
                                            !.startedAt = now,
                                            !.getThrew = getThrows,
                                            !.cachedRaw = cachedRaw]
         IN  IF found.hit
             THEN /\ calls' = [calls EXCEPT ![c] =
                        [entered EXCEPT !.pc = "returned", !.cacheHit = TRUE,
                                        !.result = found.history]]
                  /\ UNCHANGED inflight
             ELSE /\ calls' = [calls EXCEPT ![c] =
                        [entered EXCEPT !.pc = "profile",
                                        !.requests = <<profileUrl(normalizedUsername)>>]]
                  /\ inflight' = inflight \cup
                        {Request(c, profileUrl(normalizedUsername), 0)}
    /\ UNCHANGED <<now, store, remote>>

\* the profile request settles and fetchRapidHistory resumes (lines 81-90):
\* it rejects, or plans the months and enters fetchMonthlyArchives, or asks
\* for the archive index
ProfileSettles(c) ==
    LET call == calls[c]
        req  == Request(c, profileUrl(call.normalizedUsername), 0)
    IN  /\ call.kind = "history"
        /\ call.pc = "profile"
        /\ req \in inflight
        /\ \E outcome \in FetchOutcomes :
             IF fetchJsonRejects(outcome)
             THEN /\ calls' = [calls EXCEPT ![c] =
                        [call EXCEPT !.pc = "rejected", !.error = "profile",
                                     !.profileOutcome = outcome]]
                  /\ inflight' = inflight \ {req}
             ELSE LET joined    == remote.joined[call.normalizedUsername]
                      monthUrls == getMonthUrlsFromJoined(call.normalizedUsername,
                                                          joined, now)
                      planned   == [call EXCEPT !.profileOutcome = outcome,
                                                !.joinedEpoch = joined,
                                                !.planned = monthUrls]
                  IN  IF usesPlannedMonths(monthUrls)
                      THEN /\ calls' = [calls EXCEPT ![c] =
                                 enterArchives(planned, monthUrls, DefaultChunkSize)]
                           /\ inflight' = (inflight \ {req}) \cup
                                 chunkRequests(c, monthUrls, 0, DefaultChunkSize)
                      ELSE /\ calls' = [calls EXCEPT ![c] =
                                 [planned EXCEPT !.pc = "index",
                                     !.requests = Append(@, archivesUrl(call.normalizedUsername))]]
                           /\ inflight' = (inflight \ {req}) \cup
                                 {Request(c, archivesUrl(call.normalizedUsername), 0)}
        /\ UNCHANGED <<now, store, remote>>

\* the archive-index request settles (lines 87-90): the call rejects, or
\* enters fetchMonthlyArchives with `.archives || []`
IndexSettles(c) ==
    LET call == calls[c]
        req  == Request(c, archivesUrl(call.normalizedUsername), 0)
    IN  /\ call.kind = "history"
        /\ call.pc = "index"
        /\ req \in inflight
        /\ \E outcome \in FetchOutcomes :
             IF fetchJsonRejects(outcome)
             THEN /\ calls' = [calls EXCEPT ![c] =
                        [call EXCEPT !.pc = "rejected", !.error = "archives",
                                     !.indexOutcome = outcome]]
                  /\ inflight' = inflight \ {req}
             ELSE LET archives == remote.archives[call.normalizedUsername]
                      fallbackArchives == IF archives.present THEN archives.urls ELSE <<>>
                  IN  /\ calls' = [calls EXCEPT ![c] =
                            enterArchives([call EXCEPT !.indexOutcome = outcome],
                                          fallbackArchives, DefaultChunkSize)]
                      /\ inflight' = (inflight \ {req}) \cup
                            chunkRequests(c, fallbackArchives, 0, DefaultChunkSize)
        /\ UNCHANGED <<now, store, remote>>

\* one monthly-archive request settles (fetchJson, lines 5-11); its result
\* waits in the array Promise.allSettled is filling
ArchiveSettles(c) ==
    \E req \in inflight :
        /\ req.call = c
        /\ req.pos > 0
        /\ \E outcome \in FetchOutcomes :
             calls' = [calls EXCEPT ![c] =
                 [@ EXCEPT !.settled[req.pos] =
                               IF fetchJsonRejects(outcome)
                               THEN [status |-> "rejected", value |-> NotAnArray]
                               ELSE [status |-> "fulfilled", value |-> remote.games[req.url]],
                           !.settleOrder = Append(@, req.pos)]]
        /\ inflight' = inflight \ {req}
        /\ UNCHANGED <<now, store, remote>>

\* the await of line 53 resumes: the chunk's games are appended (lines
\* 54-58), then the next chunk is issued or fetchMonthlyArchives returns
ChunkDone(c) ==
    LET call == calls[c]
    IN  /\ call.pc = "batch"
        /\ chunkSettled(call)
        /\ LET last  == Min(call.i + call.chunkSize, Len(call.monthUrls))
               next  == call.i + call.chunkSize
               grown == [call EXCEPT
                            !.allGames = @ \o gamesOfSettled(call.settled, call.i + 1, last),
                            !.i = next]
           IN  IF next < Len(call.monthUrls)
               THEN /\ calls' = [calls EXCEPT ![c] =
                          [grown EXCEPT !.requests = @ \o
                              SubSeq(call.monthUrls, next + 1,
                                     Min(next + call.chunkSize, Len(call.monthUrls)))]]
                    /\ inflight' = inflight \cup
                          chunkRequests(c, call.monthUrls, next, call.chunkSize)
               ELSE /\ calls' = [calls EXCEPT ![c] = afterArchives(grown)]
                    /\ UNCHANGED inflight
        /\ UNCHANGED <<now, store, remote>>

storeAfterSetAllKeys(call, history, setThrows) ==
    IF setThrows THEN store
    ELSE [k \in DOMAIN store |->
             JSONstringify(Entry(call.refreshKey, ArrayOf(history), toISOString(now)))]
storeAfterSetDayOfWrite(call, history, setThrows) ==
    IF setThrows THEN store
    ELSE [store EXCEPT ![cacheKeyFor(call.username)] =
             JSONstringify(Entry(getUtcRefreshKey(now), ArrayOf(history), toISOString(now)))]

storeAfterSetUnlessPresent(call, history, setThrows) ==
    IF setThrows \/ store[cacheKeyFor(call.username)].kind = "json" THEN store
    ELSE [store EXCEPT ![cacheKeyFor(call.username)] =
             JSONstringify(Entry(call.refreshKey, ArrayOf(history), toISOString(now)))]
\* what lines 116-123 leave in the store: setThrows is localStorage.setItem
\* throwing
storeAfterSet(call, history, setThrows) ==
    IF setThrows THEN store
    ELSE [store EXCEPT ![cacheKeyFor(call.username)] =
             JSONstringify(Entry(call.refreshKey, ArrayOf(history), toISOString(now)))]

\* lines 116-125: the catch of line 121 swallows a throwing setItem and the
\* call returns history either way
returnHistoryUncaught(call, history, setThrows) ==
    IF setThrows THEN [call EXCEPT !.pc = "rejected", !.error = "storage", !.wrote = "threw"]
    ELSE [call EXCEPT !.pc = "returned", !.result = history, !.wrote = "ok"]
returnHistory(call, history, setThrows) ==
    [call EXCEPT !.pc = "returned", !.result = history,
                 !.wrote = IF setThrows THEN "threw" ELSE "ok"]

\* fetchRapidHistory resumes after fetchMonthlyArchives (lines 90-125):
\* the reduction, the write to the store, the return
ReduceAndStore(c) ==
    LET call == calls[c]
    IN  /\ call.kind = "history"
        /\ call.pc = "reduce"
        /\ \E setThrows \in BOOLEAN :
             LET history == reduceHistory(call.allGames, call.normalizedUsername)
             IN  /\ store' = storeAfterSet(call, history, setThrows)
                 /\ calls' = [calls EXCEPT ![c] = returnHistory(call, history, setThrows)]
        /\ UNCHANGED <<now, remote, inflight>>

(***************************************************************************)
(* fetchGamesBetween (lines 132-162).                                      *)
(***************************************************************************)
\* lines 133-134: the call with p1 and p2, the lower-cased player names
enterBetweenSwapped(player1, player2) ==
    [IdleCall EXCEPT !.kind = "between",
                     !.username = player1, !.normalizedUsername = toLowerCase(player2),
                     !.player2 = player2, !.p2 = toLowerCase(player1)]
enterBetween(player1, player2) ==
    [IdleCall EXCEPT !.kind = "between",
                     !.username = player1, !.normalizedUsername = toLowerCase(player1),
                     !.player2 = player2, !.p2 = toLowerCase(player2)]

\* fetchGamesBetween(player1, player2) up to its first await (lines
\* 132-137): the profile request of p1
CallBetween(c, player1, player2) ==
    /\ calls[c].pc = "idle"
    /\ LET entered == [enterBetween(player1, player2) EXCEPT !.startedAt = now]
           p1      == entered.normalizedUsername
       IN  /\ calls' = [calls EXCEPT ![c] =
                  [entered EXCEPT !.pc = "profile", !.requests = <<profileUrl(p1)>>]]
           /\ inflight' = inflight \cup {Request(c, profileUrl(p1), 0)}
    /\ UNCHANGED <<now, store, remote>>

\* the profile request settles and fetchGamesBetween resumes (lines
\* 137-147): it rejects, or plans the months of p1 and enters
\* fetchMonthlyArchives, or asks for the archive index of p1
BetweenProfileSettles(c) ==
    LET call == calls[c]
        p1   == call.normalizedUsername
        req  == Request(c, profileUrl(p1), 0)
    IN  /\ call.kind = "between"
        /\ call.pc = "profile"
        /\ req \in inflight
        /\ \E outcome \in FetchOutcomes :
             IF fetchJsonRejects(outcome)
             THEN /\ calls' = [calls EXCEPT ![c] =
                        [call EXCEPT !.pc = "rejected", !.error = "profile",
                                     !.profileOutcome = outcome]]
                  /\ inflight' = inflight \ {req}
             ELSE LET joined    == remote.joined[p1]
                      monthUrls == getMonthUrlsFromJoined(p1, joined, now)
                      planned   == [call EXCEPT !.profileOutcome = outcome,
                                                !.joinedEpoch = joined,
                                                !.planned = monthUrls]
                  IN  IF usesPlannedMonths(monthUrls)
                      THEN /\ calls' = [calls EXCEPT ![c] =
                                 enterArchives(planned, monthUrls, DefaultChunkSize)]
                           /\ inflight' = (inflight \ {req}) \cup
                                 chunkRequests(c, monthUrls, 0, DefaultChunkSize)
                      ELSE /\ calls' = [calls EXCEPT ![c] =
                                 [planned EXCEPT !.pc = "index",
                                     !.requests = Append(@, archivesUrl(p1))]]
                           /\ inflight' = (inflight \ {req}) \cup
                                 {Request(c, archivesUrl(p1), 0)}
        /\ UNCHANGED <<now, store, remote>>

\* the archive-index request settles (lines 144-147): the call rejects, or
\* enters fetchMonthlyArchives with `.archives || []`
BetweenIndexSettles(c) ==
    LET call == calls[c]
        p1   == call.normalizedUsername
        req  == Request(c, archivesUrl(p1), 0)
    IN  /\ call.kind = "between"
        /\ call.pc = "index"
        /\ req \in inflight
        /\ \E outcome \in FetchOutcomes :
             IF fetchJsonRejects(outcome)
             THEN /\ calls' = [calls EXCEPT ![c] =
                        [call EXCEPT !.pc = "rejected", !.error = "archives",
                                     !.indexOutcome = outcome]]
                  /\ inflight' = inflight \ {req}
             ELSE LET listed   == remote.archives[p1]
                      archives == IF listed.present THEN listed.urls ELSE <<>>
                  IN  /\ calls' = [calls EXCEPT ![c] =
                            enterArchives([call EXCEPT !.indexOutcome = outcome],
                                          archives, DefaultChunkSize)]
                      /\ inflight' = (inflight \ {req}) \cup
                            chunkRequests(c, archives, 0, DefaultChunkSize)
        /\ UNCHANGED <<now, store, remote>>

\* fetchGamesBetween resumes after fetchMonthlyArchives (lines 147-162):
\* the filter, which may throw, the sort, the return
FilterAndSort(c) ==
    LET call == calls[c]
    IN  /\ call.kind = "between"
        /\ call.pc = "filter"
        /\ calls' = [calls EXCEPT ![c] =
              IF mutualFilterThrows(call.allGames)
              THEN [call EXCEPT !.pc = "rejected", !.error = "type"]
              ELSE [call EXCEPT !.pc = "returned",
                       !.result = mutualGamesOf(call.allGames, call.normalizedUsername, call.p2)]]
        /\ UNCHANGED <<now, store, remote, inflight>>

\* the wall clock advances
Tick ==
    /\ now < StartOfClock + MaxTicks * TickSeconds
    /\ now' = now + TickSeconds
    /\ UNCHANGED <<store, remote, inflight, calls>>

(***************************************************************************)
(* Spec: one fetchRapidHistory call, for any handle, against any of the    *)
(* initial stores and remote contents below.                               *)
(***************************************************************************)
finished(call) == call.pc \in {"returned", "rejected"}

\* a history series a previous day's or today's run may have stored
oldHistory == <<[date |-> toIsoDate(Day(-2) + 100), rating |-> 1500, epoch |-> Day(-2) + 100]>>

StaleItem ==
    JSONstringify(Entry(getUtcRefreshKey(StartOfClock - 86400), ArrayOf(oldHistory),
                        toISOString(StartOfClock - 86400)))
FreshItem ==
    JSONstringify(Entry(getUtcRefreshKey(StartOfClock), ArrayOf(oldHistory),
                        toISOString(StartOfClock - 3600)))
FreshEmptyItem ==
    JSONstringify(Entry(getUtcRefreshKey(StartOfClock), ArrayOf(<<>>),
                        toISOString(StartOfClock - 3600)))
FreshNotArrayItem ==
    JSONstringify(Entry(getUtcRefreshKey(StartOfClock), NotAnArray,
                        toISOString(StartOfClock - 3600)))

InitialItems ==
    {AbsentItem, EmptyItem, GarbageItem, StaleItem, FreshItem, FreshEmptyItem,
     FreshNotArrayItem}

\* 2023-12-20, 2024-01-05, no usable value, 2024-02-20 (after the clock)
JoinedValues == {Num(Day(-12)), Num(Day(4)), Undefined, Num(Day(50))}

IndexValues == {ArchivesAbsent, ArchivesOf(<<decUrl(al)>>),
                ArchivesOf(<<janUrl(al), decUrl(al)>>)}

DecemberBodies == {ArrayOf(<<gLate, gEarly>>), ArrayOf(<<gNextDay>>), NotAnArray}
JanuaryBodies == {ArrayOf(<<gJan, gBlitz>>), ArrayOf(<<>>)}

Remote(joined, archives, december, january) ==
    [joined   |-> [p \in Players |-> IF p = al THEN joined ELSE Num(Day(4))],
     archives |-> [p \in Players |-> IF p = al THEN archives ELSE ArchivesAbsent],
     games    |-> [u \in MonthUrls |->
                     IF u = decUrl(al) THEN december
                     ELSE IF u = janUrl(al) THEN january
                     ELSE IF u = janUrl(bo) THEN ArrayOf(<<gOthers>>)
                     ELSE ArrayOf(<<>>)]]

StoreWith(item) ==
    [k \in StoreKeys |-> IF k = cacheKeyOf(al) THEN item ELSE AbsentItem]

Init ==
    /\ now = StartOfClock
    /\ \E item \in InitialItems : store = StoreWith(item)
    /\ \E j \in JoinedValues, a \in IndexValues,
          d \in DecemberBodies, y \in JanuaryBodies :
         remote = Remote(j, a, d, y)
    /\ inflight = {}
    /\ calls = [c \in CallIds |-> IdleCall]

Next ==
    \/ \E username \in Handles : CallHistory("first", username)
    \/ \E c \in CallIds : ProfileSettles(c)
    \/ \E c \in CallIds : IndexSettles(c)
    \/ \E c \in CallIds : ArchiveSettles(c)
    \/ \E c \in CallIds : ChunkDone(c)
    \/ \E c \in CallIds : ReduceAndStore(c)
    \/ Tick

Spec == Init /\ [][Next]_vars

(***************************************************************************)
(* SpecSeq: a caller that awaits one fetchRapidHistory call and then makes *)
(* a second one.                                                           *)
(***************************************************************************)
\* the caller awaits a call before it makes the next one
MayCall(c) ==
    /\ calls[c].pc = "idle"
    /\ c = "later" => finished(calls["first"])

PlannedWorld ==
    Remote(Num(Day(-12)), ArchivesAbsent, ArrayOf(<<gLate, gEarly>>), ArrayOf(<<gJan, gBlitz>>))
IndexWorld ==
    Remote(Undefined, ArchivesOf(<<decUrl(al)>>), ArrayOf(<<gNextDay>>), ArrayOf(<<>>))

InitSeq ==
    /\ now = StartOfClock
    /\ \E item \in {AbsentItem, StaleItem} : store = StoreWith(item)
    /\ remote \in {PlannedWorld, IndexWorld}
    /\ inflight = {}
    /\ calls = [c \in CallIds |-> IdleCall]

NextSeq ==
    \/ \E c \in CallIds, username \in Handles : MayCall(c) /\ CallHistory(c, username)
    \/ \E c \in CallIds : ProfileSettles(c)
    \/ \E c \in CallIds : IndexSettles(c)
    \/ \E c \in CallIds : ArchiveSettles(c)
    \/ \E c \in CallIds : ChunkDone(c)
    \/ \E c \in CallIds : ReduceAndStore(c)
    \/ Tick

SpecSeq == InitSeq /\ [][NextSeq]_vars

(***************************************************************************)
(* SpecFetch: fetchMonthlyArchives called on any URL list of at most       *)
(* MaxUrls URLs with any chunkSize in 1..MaxChunk.                         *)
(***************************************************************************)
SeqsUpTo(S, n) == UNION {[1..k -> S] : k \in 0..n}

UrlPool == {decUrl(al), janUrl(al), janUrl(bo)}

\* fetchMonthlyArchives(monthUrls, chunkSize) up to its first await
CallArchives(c, monthUrls, chunkSize) ==
    /\ calls[c].pc = "idle"
    /\ calls' = [calls EXCEPT ![c] =
           enterArchives([IdleCall EXCEPT !.kind = "archives"], monthUrls, chunkSize)]
    /\ inflight' = inflight \cup chunkRequests(c, monthUrls, 0, chunkSize)
    /\ UNCHANGED <<now, store, remote>>

InitFetch ==
    /\ now = StartOfClock
    /\ store = StoreWith(AbsentItem)
    /\ remote = PlannedWorld
    /\ inflight = {}
    /\ calls = [c \in CallIds |-> IdleCall]

NextFetch ==
    \/ \E monthUrls \in SeqsUpTo(UrlPool, MaxUrls), chunkSize \in 1..MaxChunk :
          CallArchives("first", monthUrls, chunkSize)
    \/ \E c \in CallIds : ArchiveSettles(c)
    \/ \E c \in CallIds : ChunkDone(c)

SpecFetch == InitFetch /\ [][NextFetch]_vars

(***************************************************************************)
(* SpecReduce: fetchRapidHistory at line 90, fetchMonthlyArchives having   *)
(* returned any collection of at most MaxGames games of GamePool (the one  *)
(* planned month's archive), for any handle.                               *)
(***************************************************************************)
AtReduce(username, games) ==
    [IdleCall EXCEPT
        !.pc = "reduce", !.username = username,
        !.normalizedUsername = toLowerCase(username),
        !.refreshKey = getUtcRefreshKey(StartOfClock), !.startedAt = StartOfClock,
        !.monthUrls = <<janUrl(toLowerCase(username))>>,
        !.chunkSize = DefaultChunkSize, !.i = DefaultChunkSize,
        !.settled = <<[status |-> "fulfilled", value |-> ArrayOf(games)]>>,
        !.settleOrder = <<1>>, !.allGames = games,
        !.requests = <<profileUrl(toLowerCase(username)),
                       janUrl(toLowerCase(username))>>]

InitReduce ==
    /\ now = StartOfClock
    /\ store = StoreWith(AbsentItem)
    /\ inflight = {}
    /\ \E username \in Handles, games \in SeqsUpTo(GamePool, MaxGames) :
         /\ remote = [joined   |-> [p \in Players |-> Num(Day(4))],
                      archives |-> [p \in Players |-> ArchivesAbsent],
                      games    |-> [u \in MonthUrls |->
                                      IF u = janUrl(toLowerCase(username))
                                      THEN ArrayOf(games) ELSE ArrayOf(<<>>)]]
         /\ calls = [c \in CallIds |->
                       IF c = "first" THEN AtReduce(username, games) ELSE IdleCall]

NextReduce == \E c \in CallIds : ReduceAndStore(c)

SpecReduce == InitReduce /\ [][NextReduce]_vars

(***************************************************************************)
(* SpecPlan: getMonthUrlsFromJoined called with any handle and any of the  *)
(* join values below, at any of the clocks below.                          *)
(***************************************************************************)
\* getMonthUrlsFromJoined(username, joinedEpoch), which has no await
CallPlanner(c, username, joinedEpoch) ==
    /\ calls[c].pc = "idle"
    /\ LET urls == getMonthUrlsFromJoined(username, joinedEpoch, now)
       IN  calls' = [calls EXCEPT ![c] =
               [IdleCall EXCEPT !.kind = "planner", !.pc = "returned",
                                !.username = username, !.startedAt = now,
                                !.joinedEpoch = joinedEpoch, !.planned = urls,
                                !.result = urls]]
    /\ UNCHANGED <<now, store, remote, inflight>>

\* the first and the last second of days between 2022-01-31 and 2025-01-05,
\* among them 2023-11-15, the ends of years and the leap day of 2024
JoinDays == {-700, -366, -365, -62, -47, -32, -31, -12, -1, 0, 4, 9, 30, 31, 50, 59, 370}
PlannerJoined ==
    {Num(Day(d) + s) : d \in JoinDays, s \in {0, 86399}}
        \cup {Undefined, StringValue, NaNValue, InfinityValue}

\* 2023-12-31T23:59:59Z, 2024-01-01T00:00:00Z, 2024-01-10T18:00:00Z and
\* 2024-02-29T12:00:00Z
PlannerClocks == {Day(0) - 1, Day(0), StartOfClock, Day(59) + 12 * 3600}

InitPlan ==
    /\ now \in PlannerClocks
    /\ store = StoreWith(AbsentItem)
    /\ remote = PlannedWorld
    /\ inflight = {}
    /\ calls = [c \in CallIds |-> IdleCall]

NextPlan ==
    \E username \in Handles, joinedEpoch \in PlannerJoined :
        CallPlanner("first", username, joinedEpoch)

SpecPlan == InitPlan /\ [][NextPlan]_vars

(***************************************************************************)
(* SpecApi: one call of fetchRapidHistory or of fetchGamesBetween, for any *)
(* handles, against a remote whose profile of al has any of the join       *)
(* values and whose archive index of al is any of the index values.        *)
(***************************************************************************)
ApiWorld(joined, archives) ==
    Remote(joined, archives, ArrayOf(<<gLate, gRematch, gTie>>), ArrayOf(<<gJan, gBullet>>))

InitApi ==
    /\ now = StartOfClock
    /\ \E item \in {AbsentItem, StaleItem, FreshItem} : store = StoreWith(item)
    /\ \E j \in JoinedValues, a \in IndexValues : remote = ApiWorld(j, a)
    /\ inflight = {}
    /\ calls = [c \in CallIds |-> IdleCall]

NextApi ==
    \/ \E username \in Handles : CallHistory("first", username)
    \/ \E player1, player2 \in Handles : CallBetween("first", player1, player2)
    \/ \E c \in CallIds : ProfileSettles(c)
    \/ \E c \in CallIds : IndexSettles(c)
    \/ \E c \in CallIds : BetweenProfileSettles(c)
    \/ \E c \in CallIds : BetweenIndexSettles(c)
    \/ \E c \in CallIds : ArchiveSettles(c)
    \/ \E c \in CallIds : ChunkDone(c)
    \/ \E c \in CallIds : ReduceAndStore(c)
    \/ \E c \in CallIds : FilterAndSort(c)
    \/ Tick

SpecApi == InitApi /\ [][NextApi]_vars

\* SpecApiFair: one call of either kind when every request that was issued
\* settles and the continuation of every await whose promise has settled
\* is run (the event loop runs each queued continuation): no step of a
\* call that stays possible is put off forever.
FairApi ==
    \A c \in CallIds :
        /\ WF_vars(ProfileSettles(c))
        /\ WF_vars(IndexSettles(c))
        /\ WF_vars(BetweenProfileSettles(c))
        /\ WF_vars(BetweenIndexSettles(c))
        /\ WF_vars(ArchiveSettles(c))
        /\ WF_vars(ChunkDone(c))
        /\ WF_vars(ReduceAndStore(c))
        /\ WF_vars(FilterAndSort(c))

\* the remote contents of SpecApiFair: the months hold games of other time
\* classes only (what a month holds does not change which steps a call
\* takes)
LiveWorld(joined, archives) ==
    [Remote(joined, archives, ArrayOf(<<gBullet>>), ArrayOf(<<gBlitz, gBullet>>))
        EXCEPT !.games[janUrl(bo)] = ArrayOf(<<gBullet>>)]

InitLive ==
    /\ now = StartOfClock
    /\ \E item \in {AbsentItem, FreshItem} : store = StoreWith(item)
    /\ \E j \in {Num(Day(-12)), Undefined}, a \in IndexValues : remote = LiveWorld(j, a)
    /\ inflight = {}
    /\ calls = [c \in CallIds |-> IdleCall]

SpecApiFair == InitLive /\ [][NextApi]_vars /\ FairApi

(***************************************************************************)
(* SpecFilter: fetchGamesBetween at line 147, fetchMonthlyArchives having  *)
(* returned any collection of at most MaxGames games of BetweenPool, for   *)
(* any two handles.                                                        *)
(***************************************************************************)
AtFilter(player1, player2, games) ==
    [enterBetween(player1, player2) EXCEPT
        !.pc = "filter", !.startedAt = StartOfClock,
        !.profileOutcome = "ok", !.joinedEpoch = Num(Day(4)),
        !.planned = <<janUrl(toLowerCase(player1))>>,
        !.monthUrls = <<janUrl(toLowerCase(player1))>>,
        !.chunkSize = DefaultChunkSize, !.i = DefaultChunkSize,
        !.settled = <<[status |-> "fulfilled", value |-> ArrayOf(games)]>>,
        !.settleOrder = <<1>>, !.allGames = games,
        !.requests = <<profileUrl(toLowerCase(player1)),
                       janUrl(toLowerCase(player1))>>]

InitFilter ==
    /\ now = StartOfClock
    /\ store = StoreWith(AbsentItem)
    /\ inflight = {}
    /\ \E player1, player2 \in Handles, games \in SeqsUpTo(BetweenPool, MaxGames) :
         /\ remote = [joined   |-> [p \in Players |-> Num(Day(4))],
                      archives |-> [p \in Players |-> ArchivesAbsent],
                      games    |-> [u \in MonthUrls |->
                                      IF u = janUrl(toLowerCase(player1))
                                      THEN ArrayOf(games) ELSE ArrayOf(<<>>)]]
         /\ calls = [c \in CallIds |->
                       IF c = "first" THEN AtFilter(player1, player2, games) ELSE IdleCall]

NextFilter == \E c \in CallIds : FilterAndSort(c)

SpecFilter == InitFilter /\ [][NextFilter]_vars

(***************************************************************************)
(* SpecRecords: fetchRapidHistory at line 90 or fetchGamesBetween at line  *)
(* 147, fetchMonthlyArchives having returned any collection of at most     *)
(* MaxGames games of RecordPool, which holds records without a             *)
(* participant object.                                                     *)
(***************************************************************************)
InitRecords ==
    /\ now = StartOfClock
    /\ store = StoreWith(AbsentItem)
    /\ inflight = {}
    /\ \E username \in Handles, games \in SeqsUpTo(RecordPool, MaxGames) :
         /\ remote = [joined   |-> [p \in Players |-> Num(Day(4))],
                      archives |-> [p \in Players |-> ArchivesAbsent],
                      games    |-> [u \in MonthUrls |->
                                      IF u = janUrl(toLowerCase(username))
                                      THEN ArrayOf(games) ELSE ArrayOf(<<>>)]]
         /\ \/ calls = [c \in CallIds |->
                          IF c = "first" THEN AtReduce(username, games) ELSE IdleCall]
            \/ \E player2 \in Handles :
                  calls = [c \in CallIds |->
                             IF c = "first" THEN AtFilter(username, player2, games)
                             ELSE IdleCall]

NextRecords ==
    \/ \E c \in CallIds : ReduceAndStore(c)
    \/ \E c \in CallIds : FilterAndSort(c)

SpecRecords == InitRecords /\ [][NextRecords]_vars

(***************************************************************************)
(* SpecRace: two overlapping fetchRapidHistory calls for the handle al     *)
(* (written "al" or "Al"), the second made before the first has finished,  *)
(* the store holding no valid entry.                                       *)
(***************************************************************************)
RaceHandles == {al, Al}

\* the second caller calls while the first call is pending
Overlaps(c) ==
    /\ calls[c].pc = "idle"
    /\ c = "later" => calls["first"].pc \notin {"idle", "returned", "rejected"}

InitRace ==
    /\ now = StartOfClock
    /\ \E item \in {AbsentItem, StaleItem} : store = StoreWith(item)
    /\ remote = PlannedWorld
    /\ inflight = {}
    /\ calls = [c \in CallIds |-> IdleCall]

NextRace ==
    \/ \E c \in CallIds, username \in RaceHandles : Overlaps(c) /\ CallHistory(c, username)
    \/ \E c \in CallIds : ProfileSettles(c)
    \/ \E c \in CallIds : ArchiveSettles(c)
    \/ \E c \in CallIds : ChunkDone(c)
    \/ \E c \in CallIds : ReduceAndStore(c)

SpecRace == InitRace /\ [][NextRace]_vars

(***************************************************************************)
(* Vocabulary of the properties.                                           *)
(***************************************************************************)
\* the key the specification gives: prefix, ":", lower-cased handle
SpecifiedKey(handle) == <<HISTORY_CACHE_PREFIX, ":">> \o toLowerCase(handle)

\* a history call that went past the cache and has returned
Recomputed(call) ==
    call.kind = "history" /\ call.pc = "returned" /\ ~call.cacheHit

RECURSIVE monthsGames(_, _, _)
\* the games the remote holds for the planned months k.. of a call, in the
\* order of the plan; with onlySucceeded, of the months whose request was
\* fulfilled
monthsGames(call, k, onlySucceeded) ==
    IF k > Len(call.monthUrls) THEN <<>>
    ELSE (IF onlySucceeded /\ call.settled[k].status # "fulfilled" THEN <<>>
          ELSE IF remote.games[call.monthUrls[k]].isArray
               THEN remote.games[call.monthUrls[k]].items
          ELSE <<>>)
         \o monthsGames(call, k + 1, onlySucceeded)

\* the archive requests of call c that are in flight
archivesInFlight(c) == {r \in inflight : r.call = c /\ r.url.endpoint = "games"}

\* the stored item is a parseable entry for the day `today` with an array
ValidEntryFor(item, today) ==
    /\ item.kind = "json"
    /\ item.value.refreshKey = today
    /\ item.value.history.isArray

(***************************************************************************)
(* Properties of Spec.                                                     *)
(***************************************************************************)
\* C1: when fetchRapidHistory(handle) is called while getItem gives, under
\* prefix + ":" + lower-cased handle, a parseable entry whose refreshKey is
\* today's UTC day and whose history is an array, the call returns that
\* stored history in the same step, issues no request and writes nothing.
C1_CacheHit ==
    [][\A c \in CallIds :
          (/\ calls[c].pc = "idle"
           /\ calls'[c].pc # "idle"
           /\ calls'[c].kind = "history"
           /\ ~calls'[c].getThrew
           /\ ValidEntryFor(store[SpecifiedKey(calls'[c].username)], IsoDay(now)))
          => /\ calls'[c].pc = "returned"
             /\ calls'[c].result =
                   store[SpecifiedKey(calls'[c].username)].value.history.items
             /\ calls'[c].requests = <<>>
             /\ calls'[c].wrote = "no"
             /\ inflight' = inflight
             /\ store' = store]_vars

\* C1 witness: a call for the handle "Al" has returned the stored series of
\* the key of "al" without a request
C1_Witness ==
    /\ calls["first"].pc = "returned"
    /\ calls["first"].username = Al
    /\ calls["first"].cacheHit
    /\ calls["first"].result = oldHistory
    /\ calls["first"].requests = <<>>
    /\ store[SpecifiedKey(al)] = FreshItem

\* C2: an entry whose refreshKey is not the day of the call is not returned:
\* the call asks for the profile first, and when it returns, the result is
\* the reduction of the games it fetched and, if setItem worked, the entry
\* under its key carries the call's refreshKey and that result.
C2_StaleEntryRecomputed ==
    \A c \in CallIds :
        LET call == calls[c]
        IN  (/\ call.kind = "history"
             /\ call.pc # "idle"
             /\ ~call.getThrew
             /\ call.cachedRaw.kind = "json"
             /\ call.cachedRaw.value.refreshKey # IsoDay(call.startedAt))
            => /\ ~call.cacheHit
               /\ call.requests # <<>>
               /\ call.requests[1] = profileUrl(toLowerCase(call.username))
               /\ call.pc = "returned" =>
                    /\ call.result = reduceHistory(monthsGames(call, 1, TRUE),
                                                   toLowerCase(call.username))
                    /\ call.wrote = "ok" =>
                         LET item == store[SpecifiedKey(call.username)]
                         IN  /\ item.kind = "json"
                             /\ item # call.cachedRaw
                             /\ item.value.refreshKey = IsoDay(call.startedAt)
                             /\ item.value.history = ArrayOf(call.result)

\* C2 witness: yesterday's entry was found, the call recomputed a series
\* other than the stored one and replaced the entry
C2_Witness ==
    /\ calls["first"].pc = "returned"
    /\ calls["first"].cachedRaw = StaleItem
    /\ calls["first"].wrote = "ok"
    /\ calls["first"].result # oldHistory
    /\ calls["first"].result # <<>>
    /\ store[SpecifiedKey(al)].value.refreshKey = IsoDay(calls["first"].startedAt)

\* C3 as claimed: every series a call computes and returns is the reduction
\* of the games of all planned monthly archives.
C3_AllPlannedMonths ==
    \A c \in CallIds :
        Recomputed(calls[c]) =>
            calls[c].result = reduceHistory(monthsGames(calls[c], 1, FALSE),
                                            calls[c].normalizedUsername)

\* C3 as amended: every series a call computes and returns is the reduction
\* of the games of the planned monthly archives whose request succeeded,
\* every planned month having been requested and settled.
C3_SucceededMonths ==
    \A c \in CallIds :
        Recomputed(calls[c]) =>
            /\ calls[c].result = reduceHistory(monthsGames(calls[c], 1, TRUE),
                                               calls[c].normalizedUsername)
            /\ \A k \in 1..Len(calls[c].monthUrls) :
                  /\ calls[c].settled[k].status \in {"fulfilled", "rejected"}
                  /\ \E n \in 1..Len(calls[c].requests) :
                        calls[c].requests[n] = calls[c].monthUrls[k]
            /\ archivesInFlight(c) = {}

\* C3 witness: a call returned a series that lacks the games of a planned
\* month whose request failed
C3_Witness ==
    /\ Recomputed(calls["first"])
    /\ \E k \in 1..Len(calls["first"].monthUrls) :
          calls["first"].settled[k].status = "rejected"
    /\ calls["first"].result # <<>>
    /\ calls["first"].result #
          reduceHistory(monthsGames(calls["first"], 1, FALSE),
                        calls["first"].normalizedUsername)

\* the item getItem gave, or the throw of getItem, is one of the read
\* failures of C6
ReadFailed(call) ==
    \/ call.getThrew
    \/ call.cachedRaw.kind \in {"absent", "garbage"}
    \/ /\ call.cachedRaw.kind = "json"
       /\ call.cachedRaw.value.refreshKey = IsoDay(call.startedAt)
       /\ ~call.cachedRaw.value.history.isArray

\* C6: a missing key, unparseable text, an entry of today whose history is
\* no array, or a throwing getItem is a miss: the call goes on as with no
\* entry (profile request first, then the recompute), and it rejects only
\* with the error of a failed profile or archive-index request.
C6_ReadFailuresAreMisses ==
    \A c \in CallIds :
        LET call == calls[c]
        IN  (call.kind = "history" /\ call.pc # "idle" /\ ReadFailed(call))
            => /\ ~call.cacheHit
               /\ call.requests # <<>>
               /\ call.requests[1] = profileUrl(toLowerCase(call.username))
               /\ call.pc = "rejected" => call.error \in {"profile", "archives"}
               /\ call.pc = "returned" =>
                    call.result = reduceHistory(monthsGames(call, 1, TRUE),
                                                toLowerCase(call.username))

\* C6 witness: the entry of today with a history that is no array was read
\* and the call returned a recomputed, non-empty series
C6_Witness ==
    /\ calls["first"].pc = "returned"
    /\ ~calls["first"].getThrew
    /\ calls["first"].cachedRaw = FreshNotArrayItem
    /\ calls["first"].result # <<>>

\* C7: when setItem throws after a recompute, the call still returns the
\* series it computed and the store is left as it was.
C7_WriteFailureSwallowed ==
    [][\A c \in CallIds :
          (/\ calls[c].kind = "history"
           /\ calls[c].pc = "reduce"
           /\ calls'[c].pc # "reduce"
           /\ calls'[c].wrote = "threw")
          => /\ calls'[c].pc = "returned"
             /\ calls'[c].result = reduceHistory(monthsGames(calls[c], 1, TRUE),
                                                 toLowerCase(calls[c].username))
             /\ store' = store]_vars

\* C7 witness: setItem threw, a non-empty series was returned, and the
\* stale entry is still in the store
C7_Witness ==
    /\ calls["first"].pc = "returned"
    /\ calls["first"].wrote = "threw"
    /\ calls["first"].result # <<>>
    /\ store[SpecifiedKey(al)] = StaleItem

(***************************************************************************)
(* Properties of SpecFetch.                                                *)
(***************************************************************************)
\* C4: whatever URLs fail, fetchMonthlyArchives does not reject, and what
\* it returns is the games of the URLs whose request succeeded (in the
\* order of the list), a failed URL adding no game.
C4_PartialFailureTolerated ==
    \A c \in CallIds :
        calls[c].kind = "archives" =>
            /\ calls[c].pc # "rejected"
            /\ calls[c].pc = "returned" =>
                 /\ \A k \in 1..Len(calls[c].monthUrls) :
                       calls[c].settled[k].status \in {"fulfilled", "rejected"}
                 /\ calls[c].result = monthsGames(calls[c], 1, TRUE)

\* C4 witness: a list of three URLs or more was fetched, a request failed
\* before one that succeeded, and games were returned
C4_Witness ==
    /\ calls["first"].kind = "archives"
    /\ calls["first"].pc = "returned"
    /\ Len(calls["first"].monthUrls) >= 3
    /\ \E j, k \in 1..Len(calls["first"].monthUrls) :
          /\ j < k
          /\ calls["first"].settled[j].status = "rejected"
          /\ calls["first"].settled[k].status = "fulfilled"
          /\ remote.games[calls["first"].monthUrls[j]].items # <<>>
          /\ remote.games[calls["first"].monthUrls[k]].items # <<>>
    /\ calls["first"].result # <<>>

\* the batch (from 0) of position k of the URL list of a call
batchOf(call, k) == (k - 1) \div call.chunkSize

\* C5: the requests are issued in the order of the list, one batch of at
\* most chunkSize consecutive URLs at a time; the requests in flight of a
\* call all belong to one batch and are at most chunkSize; every request
\* of an earlier batch has settled before a request of a later one exists.
C5_BatchBarrier ==
    \A c \in CallIds :
        LET call   == calls[c]
            issued == Len(call.requests)
        IN  call.kind = "archives" =>
              /\ issued <= Len(call.monthUrls)
              /\ call.requests = SubSeq(call.monthUrls, 1, issued)
              /\ \/ issued = Len(call.monthUrls)
                 \/ issued % call.chunkSize = 0
              /\ Cardinality(archivesInFlight(c)) <= call.chunkSize
              /\ \A r \in archivesInFlight(c) : r.pos <= issued
              /\ \A r1, r2 \in archivesInFlight(c) :
                    batchOf(call, r1.pos) = batchOf(call, r2.pos)
              /\ \A j, k \in 1..issued :
                    batchOf(call, j) < batchOf(call, k) =>
                        /\ call.settled[j].status # "pending"
                        /\ \A r \in archivesInFlight(c) : r.pos # j

\* C5 witness: the second batch of a call with chunkSize 2 is in flight,
\* both of its requests pending
C5_Witness ==
    /\ calls["first"].kind = "archives"
    /\ calls["first"].pc = "batch"
    /\ calls["first"].chunkSize = 2
    /\ calls["first"].i = 2
    /\ Cardinality(archivesInFlight("first")) = 2

(***************************************************************************)
(* Properties of SpecSeq.                                                  *)
(***************************************************************************)
\* C8: after a call that missed the cache has returned having written, the
\* store holds under the key of its handle an entry {refreshKey, history,
\* savedAt} whose history is the returned series, and a later call for the
\* same handle in any letter case, made on the UTC day on which the first
\* call started and able to read the store, returns that series without a
\* request.
C8_WriteBackThenHit ==
    LET first == calls["first"]
        later == calls["later"]
        item  == store[SpecifiedKey(first.username)]
    IN  (Recomputed(first) /\ first.wrote = "ok") =>
          /\ (later.pc = "idle" \/ later.wrote # "ok") =>
                /\ item.kind = "json"
                /\ item.value.refreshKey = IsoDay(first.startedAt)
                /\ item.value.history = ArrayOf(first.result)
                /\ item.value.savedAt[1] \in {IsoDay(first.startedAt + n * TickSeconds) :
                                                n \in 0..MaxTicks}
          /\ (/\ later.pc # "idle"
              /\ toLowerCase(later.username) = toLowerCase(first.username)
              /\ IsoDay(later.startedAt) = IsoDay(first.startedAt)
              /\ ~later.getThrew)
             => /\ later.pc = "returned"
                /\ later.result = first.result
                /\ later.requests = <<>>

\* C8 witness: the first call, for "Al", computed and stored a non-empty
\* series; the later call, for "al", returned it without a request
C8_Witness ==
    /\ Recomputed(calls["first"])
    /\ calls["first"].wrote = "ok"
    /\ calls["first"].username = Al
    /\ calls["first"].result # <<>>
    /\ calls["later"].pc = "returned"
    /\ calls["later"].username = al
    /\ calls["later"].result = calls["first"].result
    /\ calls["later"].requests = <<>>

(***************************************************************************)
(* Properties of SpecReduce.                                               *)
(***************************************************************************)
\* a game that counts for a player: rated, rapid, the player on one side
\* (in any letter case) with a number as the rating of that side
playsWhite(game, player) ==
    game.white.present /\ toLowerCase(game.white.username) = player
playsBlack(game, player) ==
    game.black.present /\ toLowerCase(game.black.username) = player
Qualifies(game, player) ==
    /\ game.rated
    /\ game.time_class = "rapid"
    /\ \/ playsWhite(game, player) /\ game.white.rating.type = "number"
       \/ playsBlack(game, player) /\ game.black.rating.type = "number"

\* the rating the player has after a qualifying game
ratingOf(game, player) ==
    IF playsWhite(game, player) THEN game.white.rating.value
    ELSE game.black.rating.value

\* the qualifying games of the collection that end on the day of game g
sameDayGames(games, g, player) ==
    {k \in 1..Len(games) :
        Qualifies(games[k], player) /\ toIsoDate(games[k].end_time) = toIsoDate(g.end_time)}

\* C9: (the day of a game is the date toIsoDate gives its end_time) if two
\* qualifying games of a day have different end_time, the series
\* has exactly one sample for that day, and it carries the epoch and the
\* rating of a game with the greatest end_time among the qualifying games
\* of the day, in whatever order the games came.
C9_LastWriterWins ==
    \A c \in CallIds :
        Recomputed(calls[c]) =>
            LET games  == calls[c].allGames
                player == toLowerCase(calls[c].username)
                result == calls[c].result
            IN  \A a, b \in 1..Len(games) :
                  (/\ Qualifies(games[a], player)
                   /\ Qualifies(games[b], player)
                   /\ toIsoDate(games[a].end_time) = toIsoDate(games[b].end_time)
                   /\ games[a].end_time # games[b].end_time)
                  => /\ Cardinality({n \in 1..Len(result) :
                            result[n].date = toIsoDate(games[a].end_time)}) = 1
                     /\ \E n \in 1..Len(result) :
                          \E m \in sameDayGames(games, games[a], player) :
                            /\ \A k \in sameDayGames(games, games[a], player) :
                                  games[k].end_time <= games[m].end_time
                            /\ result[n].date = toIsoDate(games[m].end_time)
                            /\ result[n].epoch = games[m].end_time
                            /\ result[n].rating = ratingOf(games[m], player)

\* C9 witness: the later game of 2023-12-30 came first in the collection,
\* the earlier one after it, and the sample of the day is the later game's
C9_Witness ==
    /\ Recomputed(calls["first"])
    /\ calls["first"].username = al
    /\ calls["first"].allGames = <<gLate, gEarly>>
    /\ calls["first"].result =
          <<[date |-> toIsoDate(gLate.end_time), rating |-> 1510, epoch |-> gLate.end_time]>>

\* C10: in every series the reducer produces, and in the entry written
\* from it, the dates are strictly increasing in sequence order.
C10_DatesStrictlyIncreasing ==
    \A c \in CallIds :
        Recomputed(calls[c]) =>
            /\ \A m, n \in 1..Len(calls[c].result) :
                  m < n => localeCompare(calls[c].result[m].date,
                                         calls[c].result[n].date) < 0
            /\ calls[c].wrote = "ok" =>
                  LET stored == store[SpecifiedKey(calls[c].username)].value.history.items
                  IN  \A m, n \in 1..Len(stored) :
                        m < n => localeCompare(stored[m].date, stored[n].date) < 0

\* C10 witness: a series of three days was produced from games given
\* latest first, and written
C10_Witness ==
    /\ Recomputed(calls["first"])
    /\ calls["first"].wrote = "ok"
    /\ calls["first"].allGames = <<gJan, gNextDay, gEarly>>
    /\ Len(calls["first"].result) = 3

\* C11: every sample of a produced series has the day, the epoch and the
\* rating of a game of the collection that is rated, rapid, has the handle
\* (in any letter case) on one side and a number as that side's rating; and
\* the series is the one the qualifying games alone give, so a game that is
\* unrated, of another time class, without the handle or without a numeric
\* rating supplies no sample and changes no day's sample.
C11_FilterCorrectness ==
    \A c \in CallIds :
        Recomputed(calls[c]) =>
            LET games  == calls[c].allGames
                player == toLowerCase(calls[c].username)
                result == calls[c].result
            IN  /\ \A n \in 1..Len(result) :
                      \E k \in 1..Len(games) :
                          /\ Qualifies(games[k], player)
                          /\ result[n].date = toIsoDate(games[k].end_time)
                          /\ result[n].epoch = games[k].end_time
                          /\ result[n].rating = ratingOf(games[k], player)
                /\ result = reduceHistory(
                               SelectSeq(games, LAMBDA g : Qualifies(g, player)), player)

\* C11 witness: an unrated game and a game without a numeric rating, both
\* later on 2023-12-30 than the one qualifying game, and a blitz game,
\* came with it; the series has the qualifying game's sample only
C11_Witness ==
    /\ Recomputed(calls["first"])
    /\ calls["first"].username = al
    /\ \E games \in {<<gUnrated, gEarly, gNoRating>>, <<gBlitz, gEarly, gUnrated>>} :
          calls["first"].allGames = games
    /\ calls["first"].result =
          <<[date |-> toIsoDate(gEarly.end_time), rating |-> 1500, epoch |-> gEarly.end_time]>>

\* the collection in the order the permutation p of its positions gives
permuted(games, p) == [k \in 1..Len(games) |-> games[p[k]]]

\* C12: for every game collection, the series the reducer produces is the
\* same for every permutation of the collection.
C12_OrderHasNoEffect ==
    \A c \in CallIds :
        Recomputed(calls[c]) =>
            LET games  == calls[c].allGames
                player == toLowerCase(calls[c].username)
            IN  \A p \in Permutations(1..Len(games)) :
                    reduceHistory(permuted(games, p), player) = calls[c].result

RECURSIVE subCollection(_, _)
\* the games of the collection at the positions of the set `keep`, in the
\* order of the collection
subCollection(games, keep) ==
    IF games = <<>> THEN <<>>
    ELSE LET init == subCollection(SubSeq(games, 1, Len(games) - 1), keep)
         IN  IF Len(games) \in keep THEN Append(init, games[Len(games)]) ELSE init

\* C13: if collection G2 contains every game of collection G1, every day of
\* reduce(G1) is a day of reduce(G2), and the day's sample differs between
\* the two only if G2 has a qualifying game of that day that ends later than
\* the epoch of the sample in reduce(G1).
C13_SupersetConsistent ==
    \A c \in CallIds :
        Recomputed(calls[c]) =>
            LET G2     == calls[c].allGames
                player == toLowerCase(calls[c].username)
                reduce2 == calls[c].result
            IN  \A keep \in SUBSET (1..Len(G2)) :
                  LET reduce1 == reduceHistory(subCollection(G2, keep), player)
                  IN  \A m \in 1..Len(reduce1) :
                        \E n \in 1..Len(reduce2) :
                          /\ reduce2[n].date = reduce1[m].date
                          /\ reduce2[n] # reduce1[m] =>
                                \E k \in 1..Len(G2) :
                                  /\ Qualifies(G2[k], player)
                                  /\ toIsoDate(G2[k].end_time) = reduce1[m].date
                                  /\ G2[k].end_time > reduce1[m].epoch

(***************************************************************************)
(* Properties of SpecPlan.                                                 *)
(***************************************************************************)
\* a calendar month <<year, month, ...>> as a count of months
monthIndex(civil) == civil[1] * 12 + (civil[2] - 1)

\* a month number written with two digits
twoDigits(m) == <<DigitChar(m \div 10), DigitChar(m % 10)>>

\* the archive URL of the handle for the month with the given index
urlOfMonthIndex(handle, index) ==
    [endpoint |-> "games", player |-> handle,
     year |-> NumberToString(index \div 12), mm |-> twoDigits((index % 12) + 1)]

\* a getMonthUrlsFromJoined call that has returned
Planned(call) == call.kind = "planner" /\ call.pc = "returned"

\* C14: for a finite joinEpoch whose UTC month is not after the UTC month of
\* the clock, getMonthUrlsFromJoined returns one URL for each calendar month
\* from the join month through the current month, in chronological order
\* (the k-th URL is that of the k-th month of the range, so none is missing
\* or repeated and January of the next year follows December), the month
\* written with two digits; joined 2023-11-15 and called on 2024-01-10 it
\* returns 2023/11, 2023/12, 2024/01.
C14_PlannerRange ==
    \A c \in CallIds :
        LET call  == calls[c]
            first == monthIndex(UtcCivil(call.joinedEpoch.value))
            last  == monthIndex(UtcCivil(call.startedAt))
        IN  (Planned(call) /\ NumberIsFinite(call.joinedEpoch) /\ first <= last) =>
                /\ Len(call.result) = last - first + 1
                /\ \A k \in 1..Len(call.result) :
                      /\ call.result[k] = urlOfMonthIndex(call.username, first + k - 1)
                      /\ Len(call.result[k].mm) = 2
                /\ \A k \in 1..(Len(call.result) - 1) :
                      call.result[k].mm = <<"1", "2">> =>
                          /\ call.result[k + 1].mm = <<"0", "1">>
                          /\ call.result[k + 1].year # call.result[k].year
                /\ (call.joinedEpoch = Num(Day(-47)) /\ call.startedAt = StartOfClock) =>
                      call.result =
                          <<[endpoint |-> "games", player |-> call.username,
                             year |-> <<"2", "0", "2", "3">>, mm |-> <<"1", "1">>],
                            [endpoint |-> "games", player |-> call.username,
                             year |-> <<"2", "0", "2", "3">>, mm |-> <<"1", "2">>],
                            [endpoint |-> "games", player |-> call.username,
                             year |-> <<"2", "0", "2", "4">>, mm |-> <<"0", "1">>]>>

\* C14 witness: the planner was called for bo, joined 2023-11-15, on
\* 2024-01-10, and returned three URLs
C14_Witness ==
    /\ Planned(calls["first"])
    /\ calls["first"].username = bo
    /\ calls["first"].joinedEpoch = Num(Day(-47))
    /\ calls["first"].startedAt = StartOfClock
    /\ Len(calls["first"].result) = 3

\* C15: getMonthUrlsFromJoined returns the empty sequence when joinEpoch is
\* not a finite number (undefined, a string, NaN, an infinity) and when the
\* join month is after the month of the clock; every call returns a
\* sequence (of length zero or more).
C15_PlannerEmptyCases ==
    \A c \in CallIds :
        LET call == calls[c]
        IN  Planned(call) =>
                /\ Len(call.result) >= 0
                /\ call.joinedEpoch \in {Undefined, StringValue, NaNValue, InfinityValue}
                      => call.result = <<>>
                /\ (/\ call.joinedEpoch \notin {Undefined, StringValue, NaNValue, InfinityValue}
                    /\ monthIndex(UtcCivil(call.joinedEpoch.value))
                          > monthIndex(UtcCivil(call.startedAt)))
                      => call.result = <<>>

\* C15 witness: the planner returned no URL for a join time of NaN, and for
\* a join time of 2024-01-01T00:00:00Z when called one second earlier
C15_Witness ==
    /\ Planned(calls["first"])
    /\ calls["first"].result = <<>>
    /\ \/ calls["first"].joinedEpoch = NaNValue
       \/ /\ calls["first"].joinedEpoch = Num(Day(0))
          /\ calls["first"].startedAt = Day(0) - 1

(***************************************************************************)
(* Properties of SpecFilter.                                               *)
(***************************************************************************)
\* a fetchGamesBetween call that has returned
BetweenReturned(call) == call.kind = "between" /\ call.pc = "returned"

\* a head-to-head game of the handles A and B: rated, rapid, the lower-cased
\* participants being A and B in one colour assignment or the other
Matches(game, A, B) ==
    /\ game.rated
    /\ game.time_class = "rapid"
    /\ LET white == toLowerCase(game.white.username)
           black == toLowerCase(game.black.username)
       IN  \/ white = toLowerCase(A) /\ black = toLowerCase(B)
           \/ white = toLowerCase(B) /\ black = toLowerCase(A)

\* how many times the record g occurs in the sequence
occurrences(seq, g) == Cardinality({k \in 1..Len(seq) : seq[k] = g})

\* C18: fetchGamesBetween(A, B) returns exactly the fetched games that are
\* rated, rapid and played by A and B (lower-cased, either colour each): a
\* game is in the result if and only if it is such a fetched game, so a
\* game of A against a third player is not; from p1(white) vs p3(black) and
\* p2(white) vs p1(black), both rated rapid, the result for (p1, p2) is the
\* second game only.
C18_HeadToHeadFilter ==
    \A c \in CallIds :
        BetweenReturned(calls[c]) =>
            LET games  == calls[c].allGames
                A      == calls[c].username
                B      == calls[c].player2
                result == calls[c].result
            IN  /\ \A n \in 1..Len(result) :
                      \E k \in 1..Len(games) :
                          games[k] = result[n] /\ Matches(games[k], A, B)
                /\ \A k \in 1..Len(games) :
                      Matches(games[k], A, B) =>
                          \E n \in 1..Len(result) : result[n] = games[k]
                /\ (A = al /\ B = bo /\ games = <<gEarly, gJan>>) => result = <<gJan>>

\* C18 witness: for (al, bo) the collection held al (as "Al", white)
\* against cy and bo (white) against al, and the second game was returned
C18_Witness ==
    /\ BetweenReturned(calls["first"])
    /\ calls["first"].username = al
    /\ calls["first"].player2 = bo
    /\ calls["first"].allGames = <<gEarly, gJan>>
    /\ calls["first"].result = <<gJan>>

\* C19: the sequence fetchGamesBetween returns is ordered by non-increasing
\* end_time and holds every matching fetched game as many times as it was
\* fetched, and nothing else: matching games of one calendar day are all
\* kept, and the length is the number of matching games fetched.
C19_HeadToHeadOrderAndCompleteness ==
    \A c \in CallIds :
        BetweenReturned(calls[c]) =>
            LET games  == calls[c].allGames
                A      == calls[c].username
                B      == calls[c].player2
                result == calls[c].result
            IN  /\ \A m, n \in 1..Len(result) :
                      m < n => result[m].end_time >= result[n].end_time
                /\ \A k \in 1..Len(games) :
                      occurrences(result, games[k]) =
                          IF Matches(games[k], A, B) THEN occurrences(games, games[k]) ELSE 0
                /\ Len(result) =
                      Cardinality({k \in 1..Len(games) : Matches(games[k], A, B)})

\* C19 witness: for (Al, bo) two matching games of 2023-12-30, one of them
\* fetched twice, were returned, all three, the later one first
C19_Witness ==
    /\ BetweenReturned(calls["first"])
    /\ calls["first"].username = Al
    /\ calls["first"].player2 = bo
    /\ calls["first"].allGames = <<gTie, gRematch, gTie>>
    /\ calls["first"].result = <<gRematch, gTie, gTie>>
    /\ toIsoDate(gTie.end_time) = toIsoDate(gRematch.end_time)

(***************************************************************************)
(* Properties of SpecApi.                                                  *)
(***************************************************************************)
\* a call of one of the two exported functions that has been made
ApiCall(call) == call.kind \in {"history", "between"} /\ call.pc # "idle"

\* the URLs of the sequence, as a set
urlsOf(requests) == {requests[k] : k \in 1..Len(requests)}

\* the call has passed the planning stage: the planner has run and, if it
\* returned nothing, the archive index has been answered
pastPlanning(call) ==
    /\ call.profileOutcome = "ok"
    /\ call.planned = <<>> => call.indexOutcome = "ok"

\* C16: in fetchRapidHistory and in fetchGamesBetween the archive index of
\* the (first) player has been requested exactly when the profile request
\* has succeeded and the planner returned the empty sequence, as the
\* request after the profile request; when the planner returned URLs they
\* are the archives fetched and the index is not requested; when the index
\* answer has no archives array no archive is requested and the call does
\* not reject but returns the empty result.
C16_ArchiveIndexFallback ==
    \A c \in CallIds :
        LET call  == calls[c]
            p1    == toLowerCase(call.username)
            index == archivesUrl(p1)
        IN  (ApiCall(call) /\ ~call.cacheHit) =>
                /\ call.profileOutcome = "ok" =>
                      /\ call.joinedEpoch = remote.joined[p1]
                      /\ call.planned =
                            getMonthUrlsFromJoined(p1, call.joinedEpoch, call.startedAt)
                /\ index \in urlsOf(call.requests)
                      <=> (call.profileOutcome = "ok" /\ call.planned = <<>>)
                /\ index \in urlsOf(call.requests) =>
                      /\ call.requests[1] = profileUrl(p1)
                      /\ call.requests[2] = index
                      /\ Request(c, profileUrl(p1), 0) \notin inflight
                /\ (call.profileOutcome = "ok" /\ call.planned # <<>>) =>
                      /\ call.monthUrls = call.planned
                      /\ call.indexOutcome = "none"
                /\ (call.indexOutcome = "ok" /\ ~remote.archives[p1].present) =>
                      /\ call.monthUrls = <<>>
                      /\ call.requests = <<profileUrl(p1), index>>
                      /\ call.pc # "rejected"
                      /\ call.pc = "returned" => call.result = <<>>

\* C16 witness: a fetchGamesBetween call whose planner returned nothing
\* asked for the index, got an answer without an archives array, and
\* returned the empty result
C16_Witness ==
    /\ calls["first"].pc = "returned"
    /\ calls["first"].kind = "between"
    /\ calls["first"].profileOutcome = "ok"
    /\ calls["first"].planned = <<>>
    /\ calls["first"].indexOutcome = "ok"
    /\ ~remote.archives[calls["first"].normalizedUsername].present
    /\ calls["first"].requests =
          <<profileUrl(calls["first"].normalizedUsername),
            archivesUrl(calls["first"].normalizedUsername)>>
    /\ calls["first"].result = <<>>

\* C17: a fetchRapidHistory or fetchGamesBetween call whose profile request
\* failed, or whose archive-index request failed, has rejected with the
\* error of that request, returned nothing and made no further request;
\* and a call has rejected only in these two ways: a call with failed
\* monthly-archive requests goes on and returns.
C17_PlanningErrorsPropagate ==
    \A c \in CallIds :
        LET call == calls[c]
            p1   == toLowerCase(call.username)
        IN  ApiCall(call) =>
                /\ call.profileOutcome \notin {"none", "ok"} =>
                      /\ call.pc = "rejected" /\ call.error = "profile"
                      /\ call.result = <<>>
                      /\ call.requests = <<profileUrl(p1)>>
                /\ call.indexOutcome \notin {"none", "ok"} =>
                      /\ call.pc = "rejected" /\ call.error = "archives"
                      /\ call.result = <<>>
                      /\ call.requests = <<profileUrl(p1), archivesUrl(p1)>>
                /\ call.pc = "rejected" =>
                      \/ call.profileOutcome \notin {"none", "ok"}
                      \/ call.indexOutcome \notin {"none", "ok"}
                /\ (finished(call) /\ pastPlanning(call)) => call.pc = "returned"

\* C17 witness: a fetchRapidHistory call was rejected by its failed
\* archive-index request, after a profile request that succeeded
C17_Witness ==
    /\ calls["first"].kind = "history"
    /\ calls["first"].pc = "rejected"
    /\ calls["first"].error = "archives"
    /\ calls["first"].profileOutcome = "ok"
    /\ calls["first"].indexOutcome = "status"

\* C20: every request a fetchGamesBetween(A, B) call has issued, settled or
\* in flight, is for A's profile, for A's archive index, for a monthly
\* archive the planner returned for A, or for one A's index lists; when B
\* is another player than A, none is for a URL of B.
C20_HeadToHeadFetchesFirstPlayerOnly ==
    \A c \in CallIds :
        LET call == calls[c]
            A    == toLowerCase(call.username)
            B    == toLowerCase(call.player2)
            issued == urlsOf(call.requests) \cup {r.url : r \in {q \in inflight : q.call = c}}
        IN  (call.kind = "between" /\ call.pc # "idle") =>
                \A url \in issued :
                    /\ \/ url = profileUrl(A)
                       \/ url = archivesUrl(A)
                       \/ /\ url.endpoint = "games"
                          /\ url.player = A
                          /\ url \in urlsOf(getMonthUrlsFromJoined(A, remote.joined[A],
                                                                   call.startedAt))
                       \/ /\ url.endpoint = "games"
                          /\ call.indexOutcome = "ok"
                          /\ url \in urlsOf(remote.archives[A].urls)
                    /\ A # B => url.player # B

\* C20 witness: fetchGamesBetween("Al", "bo") has returned after requests
\* for al's profile, al's archive index and the two archives it lists
C20_Witness ==
    /\ BetweenReturned(calls["first"])
    /\ calls["first"].username = Al
    /\ calls["first"].player2 = bo
    /\ calls["first"].requests =
          <<profileUrl(al), archivesUrl(al), janUrl(al), decUrl(al)>>

\* C21: no step of a fetchGamesBetween call changes the store, and such a
\* call never returns from the store (it starts with the profile request
\* whatever the store holds); the store changes only in the write of a
\* fetchRapidHistory call, and then only under the key of the handle that
\* call was given, the entries of all other keys staying as they were.
C21_HeadToHeadBypassesCache ==
    [][/\ \A c \in CallIds :
            (calls'[c].kind = "between" /\ calls'[c] # calls[c]) =>
                /\ store' = store
                /\ ~calls'[c].cacheHit
                /\ calls'[c].wrote = "no"
                /\ calls'[c].requests[1] = profileUrl(toLowerCase(calls'[c].username))
       /\ \A k \in StoreKeys :
            store'[k] # store[k] =>
                \E c \in CallIds :
                    /\ calls[c].kind = "history"
                    /\ calls[c].pc = "reduce"
                    /\ calls'[c].wrote = "ok"
                    /\ k = SpecifiedKey(calls[c].username)]_vars

\* C21 witness: fetchGamesBetween("al", "bo") returned games it fetched
\* while the store held a valid entry of today for al, which is still there
C21_Witness ==
    /\ BetweenReturned(calls["first"])
    /\ calls["first"].username = al
    /\ calls["first"].player2 = bo
    /\ calls["first"].result # <<>>
    /\ store = StoreWith(FreshItem)
    /\ ValidEntryFor(store[SpecifiedKey(al)], getUtcRefreshKey(calls["first"].startedAt))

(***************************************************************************)
(* Properties of SpecRace.                                                 *)
(***************************************************************************)
\* the other caller
otherCall(c) == IF c = "first" THEN "later" ELSE "first"

\* the step is the store write of call c (lines 116-120), setItem not
\* throwing
Writes(c) == calls[c].pc = "reduce" /\ calls'[c].wrote = "ok"

\* the same monthly archives were planned and fulfilled for both calls
sameFulfilled(a, b) ==
    /\ a.monthUrls = b.monthUrls
    /\ \A k \in 1..Len(a.monthUrls) : a.settled[k].status = b.settled[k].status

\* C22: of two overlapping fetchRapidHistory calls for one handle, made
\* while the store has no valid entry, neither returns from the store nor
\* uses a request of the other: each issues its own profile request and,
\* once planned, its own archive requests, each return goes with the
\* call's own write, and a write puts the writing call's entry in the
\* store whatever the other call wrote there before, so the last write
\* stays.
C22_NoLockingBetweenCallers ==
    [][\A c \in CallIds :
          /\ calls'[c].pc # "idle" =>
                /\ ~calls'[c].cacheHit
                /\ calls'[c].requests[1] = profileUrl(al)
                /\ calls'[c].pc = "profile" => Request(c, profileUrl(al), 0) \in inflight'
                /\ calls'[c].pc = "batch" =>
                      \A k \in chunkPositions(calls'[c]) :
                          \/ calls'[c].settled[k].status # "pending"
                          \/ Request(c, calls'[c].monthUrls[k], k) \in inflight'
                /\ calls'[c].pc = "returned" =>
                      /\ calls'[c].requests = <<profileUrl(al)>> \o calls'[c].monthUrls
                      /\ calls'[c].wrote \in {"ok", "threw"}
          /\ Writes(c) =>
                /\ store'[SpecifiedKey(al)] =
                      JSONstringify(Entry(calls[c].refreshKey, ArrayOf(calls'[c].result),
                                          toISOString(now)))
                /\ calls'[otherCall(c)] = calls[otherCall(c)]
                /\ inflight' = inflight]_vars

\* C22 witness: both calls fetched for themselves, returned and wrote; the
\* two histories differ and the store holds the one of the call "first",
\* which wrote last
C22_Witness ==
    /\ \A c \in CallIds :
          /\ calls[c].pc = "returned" /\ calls[c].wrote = "ok"
          /\ Len(calls[c].requests) = 3
    /\ calls["first"].result # calls["later"].result
    /\ calls["later"].result # <<>>
    /\ store[SpecifiedKey(al)].value.history.items = calls["first"].result

\* the history h2 is h1 or a superset-consistent extension of it: every day
\* of h1 is a day of h2, with the same sample or one of a later epoch
extends(h2, h1) ==
    \A m \in 1..Len(h1) :
        \E n \in 1..Len(h2) :
            /\ h2[n].date = h1[m].date
            /\ h2[n] = h1[m] \/ h2[n].epoch > h1[m].epoch

\* C23: when one of two overlapping recomputes for a handle on one UTC day
\* writes after the other has written, the history it leaves in the store
\* is equal to, or a superset-consistent extension of, the history the
\* other wrote: no write replaces a more complete series by a less
\* complete one.
C23_BenignWriteRace ==
    [][\A c \in CallIds :
          (/\ Writes(c)
           /\ calls[otherCall(c)].wrote = "ok"
           /\ calls[otherCall(c)].refreshKey = calls[c].refreshKey)
          => extends(store'[SpecifiedKey(al)].value.history.items,
                     calls[otherCall(c)].result)]_vars

\* C23 as amended: the history the later write leaves in the store is the
\* reduction of the games of the months that were fulfilled for the writing
\* call; it is equal to the history the other call wrote when the same
\* months were fulfilled for both calls.
C23_LastWriteFromOwnMonths ==
    [][\A c \in CallIds :
          (/\ Writes(c)
           /\ calls[otherCall(c)].wrote = "ok"
           /\ calls[otherCall(c)].refreshKey = calls[c].refreshKey)
          => /\ store'[SpecifiedKey(al)].value.history.items =
                   reduceHistory(monthsGames(calls[c], 1, TRUE), al)
             /\ sameFulfilled(calls[c], calls[otherCall(c)]) =>
                   store'[SpecifiedKey(al)].value.history.items
                       = calls[otherCall(c)].result]_vars

\* C23 witness: the call "later" lost its December request, the call
\* "first" did not; both wrote, and the store holds the shorter history of
\* "later", written last
C23_Witness ==
    /\ \A c \in CallIds : calls[c].pc = "returned" /\ calls[c].wrote = "ok"
    /\ calls["first"].settled[1].status = "fulfilled"
    /\ calls["first"].settled[2].status = "fulfilled"
    /\ calls["later"].settled[1].status = "rejected"
    /\ calls["later"].settled[2].status = "fulfilled"
    /\ Len(calls["later"].result) < Len(calls["first"].result)
    /\ store[SpecifiedKey(al)].value.history.items = calls["later"].result

(***************************************************************************)
(* More properties of SpecFetch.                                           *)
(***************************************************************************)
RECURSIVE gamesAlong(_, _)
\* the games of the fulfilled results at the positions the sequence `order`
\* lists, in that order
gamesAlong(settled, order) ==
    IF order = <<>> THEN <<>>
    ELSE LET r == settled[Head(order)]
         IN  (IF r.status = "fulfilled" /\ r.value.isArray THEN r.value.items ELSE <<>>)
             \o gamesAlong(settled, Tail(order))

\* the positions 1..n in increasing order
positionsUpTo(n) == [k \in 1..n |-> k]

\* C24: fetchMonthlyArchives returns the games batch after batch and,
\* within a batch, in the order in which the requests of the batch settled.
C24_SettleOrderWithinBatch ==
    \A c \in CallIds :
        (calls[c].kind = "archives" /\ calls[c].pc = "returned") =>
            calls[c].result = gamesAlong(calls[c].settled, calls[c].settleOrder)

\* C24 as amended: fetchMonthlyArchives appends the games batch after batch
\* and, within a batch, in the order of the URLs in the list, whatever the
\* order in which the requests settled: at every moment allGames holds the
\* games of the batches already awaited, in list order.
C24_ListOrderWithinBatch ==
    \A c \in CallIds :
        calls[c].kind = "archives" =>
            /\ calls[c].pc = "batch" =>
                  calls[c].allGames =
                      gamesAlong(calls[c].settled, positionsUpTo(calls[c].i))
            /\ calls[c].pc = "returned" =>
                  calls[c].result =
                      gamesAlong(calls[c].settled, positionsUpTo(Len(calls[c].monthUrls)))

\* C24 witness: in a batch of two the second request settled first, both
\* were fulfilled with games, and the games of the first URL come first
C24_Witness ==
    /\ calls["first"].kind = "archives"
    /\ calls["first"].pc = "returned"
    /\ calls["first"].chunkSize = 2
    /\ calls["first"].monthUrls = <<decUrl(al), janUrl(bo)>>
    /\ calls["first"].settleOrder = <<2, 1>>
    /\ calls["first"].result = <<gLate, gEarly, gOthers>>

\* how many requests fetchMonthlyArchives has issued for position k of its
\* list: those that have settled and the one in flight
issuedFor(c, k) ==
    occurrences(calls[c].settleOrder, k)
        + (IF \E r \in inflight : r.call = c /\ r.pos = k THEN 1 ELSE 0)

\* C25: within one fetchMonthlyArchives call every entry of the URL list is
\* requested once and no more, whether its request succeeds or fails (a
\* failed one is not issued again): the requests issued so far are the
\* first entries of the list, each issued exactly once, the later entries
\* not yet; every request in flight is for the URL at its position of the
\* list; when the call returns, the requests issued are the list.
C25_OneRequestPerUrl ==
    \A c \in CallIds :
        LET call == calls[c]
        IN  (call.kind = "archives" /\ call.pc # "idle") =>
                /\ Len(call.requests) <= Len(call.monthUrls)
                /\ call.requests = SubSeq(call.monthUrls, 1, Len(call.requests))
                /\ \A k \in 1..Len(call.monthUrls) :
                      issuedFor(c, k) = IF k <= Len(call.requests) THEN 1 ELSE 0
                /\ \A r \in inflight :
                      r.call = c =>
                          /\ r.pos \in 1..Len(call.monthUrls)
                          /\ r.url = call.monthUrls[r.pos]
                /\ call.pc = "returned" =>
                      /\ call.requests = call.monthUrls
                      /\ Len(call.settleOrder) = Len(call.monthUrls)

\* C25 witness: a list of three URLs, one of them twice, was fetched in
\* batches of two; the first request failed, and three requests were made
C25_Witness ==
    /\ calls["first"].kind = "archives"
    /\ calls["first"].pc = "returned"
    /\ calls["first"].chunkSize = 2
    /\ calls["first"].monthUrls = <<decUrl(al), janUrl(al), decUrl(al)>>
    /\ calls["first"].settled[1].status = "rejected"
    /\ calls["first"].settled[3].status = "fulfilled"
    /\ calls["first"].requests = calls["first"].monthUrls
    /\ Len(calls["first"].settleOrder) = 3


(***************************************************************************)
(* Property of SpecApiFair.                                                *)
(***************************************************************************)
\* C26: when every issued request settles (chunkSize is the default 8),
\* every fetchRapidHistory and fetchGamesBetween call that was started
\* eventually returns a result or rejects: no call stays pending for ever.
C26_RunToCompletion ==
    \A c \in CallIds : ApiCall(calls[c]) ~> finished(calls[c])

\* C26 witness: a head-to-head call has returned after a profile request
\* and two month requests, one of which failed
C26_Witness ==
    /\ calls["first"].kind = "between"
    /\ calls["first"].pc = "returned"
    /\ Len(calls["first"].monthUrls) = 2
    /\ Len(calls["first"].settleOrder) = 2
    /\ calls["first"].settled[1].status = "rejected"
    /\ calls["first"].settled[2].status = "fulfilled"
    /\ inflight = {}


(***************************************************************************)
(* More properties of SpecSeq.                                             *)
(***************************************************************************)
\* an entry whose savedAt is on another UTC day than its refreshKey: it was
\* written after the midnight that followed the start of its call
writtenAfterMidnight(item) ==
    item.kind = "json" /\ item.value.savedAt[1] # item.value.refreshKey

\* C27: the refreshKey of the entry a fetchRapidHistory call writes is the
\* UTC day on which the call started, not the day of the write: the entry
\* of a call that started before UTC midnight and writes after it is stale
\* from the moment it is stored, and the next call for that handle that
\* reads it misses and requests the profile again.
C27_RefreshKeyIsDayOfStart ==
    LET first == calls["first"]
        later == calls["later"]
        item  == store[SpecifiedKey(first.username)]
    IN  (Recomputed(first) /\ first.wrote = "ok") =>
          /\ later.pc = "idle" =>
                /\ item.kind = "json"
                /\ item.value.refreshKey = IsoDay(first.startedAt)
                /\ writtenAfterMidnight(item) =>
                      /\ item.value.savedAt[1] \in {IsoDay(first.startedAt + n * TickSeconds) :
                                                      n \in 1..MaxTicks}
                      /\ ~ValidEntryFor(item, IsoDay(now))
          /\ (/\ later.pc # "idle"
              /\ toLowerCase(later.username) = toLowerCase(first.username)
              /\ ~later.getThrew)
             => /\ later.cachedRaw.kind = "json"
                /\ later.cachedRaw.value.refreshKey = IsoDay(first.startedAt)
                /\ writtenAfterMidnight(later.cachedRaw) =>
                      /\ ~later.cacheHit
                      /\ Len(later.requests) >= 1
                      /\ later.requests[1] = profileUrl(later.normalizedUsername)

\* C27 witness: the first call started on 2024-01-10 and wrote on
\* 2024-01-11; the later call for the handle read that entry, missed,
\* recomputed and wrote again
C27_Witness ==
    /\ Recomputed(calls["first"])
    /\ calls["first"].wrote = "ok"
    /\ IsoDay(calls["first"].startedAt) = <<"2", "0", "2", "4", "-", "0", "1", "-", "1", "0">>
    /\ calls["later"].username = calls["first"].username
    /\ calls["later"].cachedRaw.kind = "json"
    /\ calls["later"].cachedRaw.value.refreshKey = IsoDay(calls["first"].startedAt)
    /\ calls["later"].cachedRaw.value.savedAt[1] = <<"2", "0", "2", "4", "-", "0", "1", "-", "1", "1">>
    /\ Recomputed(calls["later"])
    /\ calls["later"].wrote = "ok"


(***************************************************************************)
(* More properties of Spec.                                                *)
(***************************************************************************)
\* C28: a fetchRapidHistory call that has rejected was rejected by its
\* profile or archive-index request and has written nothing: the store is
\* one of the initial stores, and the item under the key of its handle is
\* the one the call read (valid, stale or corrupt), as it was.
C28_RejectLeavesStore ==
    \A c \in CallIds :
        LET call == calls[c]
        IN  (call.kind = "history" /\ call.pc = "rejected") =>
                /\ call.error \in {"profile", "archives"}
                /\ call.wrote = "no"
                /\ \E item \in InitialItems : store = StoreWith(item)
                /\ ~call.getThrew =>
                      store[SpecifiedKey(call.username)] = call.cachedRaw

\* C28 witness: a call for "Al" read unparseable text, went on, and was
\* rejected by its archive-index request; the text is still in the store
C28_Witness ==
    /\ calls["first"].kind = "history"
    /\ calls["first"].pc = "rejected"
    /\ calls["first"].username = Al
    /\ calls["first"].error = "archives"
    /\ calls["first"].cachedRaw = GarbageItem
    /\ store[cacheKeyOf(al)] = GarbageItem


(***************************************************************************)
(* More properties of SpecReduce.                                          *)
(***************************************************************************)
\* the collection with the games at positions a and b exchanged
swapped(games, a, b) ==
    [k \in 1..Len(games) |-> IF k = a THEN games[b] ELSE IF k = b THEN games[a] ELSE games[k]]

\* C29: when two qualifying games of a day end at the same end_time, the
\* greatest of the day, with different ratings, the day's one sample has
\* the rating of the first in the collection of the games that end then;
\* the result depends on the order: with the two games exchanged it is
\* another series.
C29_TieKeepsFirst ==
    \A c \in CallIds :
        Recomputed(calls[c]) =>
            LET games  == calls[c].allGames
                player == toLowerCase(calls[c].username)
                result == calls[c].result
            IN  \A a, b \in 1..Len(games) :
                  (/\ a < b
                   /\ Qualifies(games[a], player)
                   /\ Qualifies(games[b], player)
                   /\ toIsoDate(games[a].end_time) = toIsoDate(games[b].end_time)
                   /\ games[a].end_time = games[b].end_time
                   /\ ratingOf(games[a], player) # ratingOf(games[b], player)
                   /\ \A k \in sameDayGames(games, games[a], player) :
                         /\ games[k].end_time <= games[a].end_time
                         /\ k < a => games[k].end_time < games[a].end_time)
                  => /\ Cardinality({n \in 1..Len(result) :
                            result[n].date = toIsoDate(games[a].end_time)}) = 1
                     /\ \A n \in 1..Len(result) :
                          result[n].date = toIsoDate(games[a].end_time) =>
                              /\ result[n].rating = ratingOf(games[a], player)
                              /\ result[n].epoch = games[a].end_time
                     /\ reduceHistory(swapped(games, a, b), player) # result

\* C29 witness: of gEarly, gTie and gLate, fetched in that order for "al",
\* the two last end together, after gEarly; the sample of 2023-12-30 has
\* the rating of gTie
C29_Witness ==
    /\ Recomputed(calls["first"])
    /\ calls["first"].username = al
    /\ calls["first"].allGames = <<gEarly, gTie, gLate>>
    /\ calls["first"].result =
          <<[date |-> toIsoDate(gTie.end_time), rating |-> 1490, epoch |-> gTie.end_time]>>


(***************************************************************************)
(* Properties of SpecRecords.                                              *)
(***************************************************************************)
\* a rated rapid game record without a white or without a black
\* participant object
Malformed(game) ==
    /\ game.time_class = "rapid" /\ game.rated
    /\ ~game.white.present \/ ~game.black.present

\* the collection without its record at position k
without(games, k) == subCollection(games, (1..Len(games)) \ {k})

\* what fetchGamesBetween does with a collection: it rejects exactly when
\* the collection holds a malformed record
betweenRejectsOnMalformed(call) ==
    (call.kind = "between" /\ call.pc # "filter") =>
        IF \E k \in 1..Len(call.allGames) : Malformed(call.allGames[k])
        THEN call.pc = "rejected" /\ call.error = "type" /\ call.result = <<>>
        ELSE call.pc = "returned"

\* C30 as claimed: fetchRapidHistory raises no error on a malformed record
\* and every malformed record is skipped, the series being the one of the
\* collection without it; fetchGamesBetween rejects on such a record.
C30_MalformedSkipped ==
    \A c \in CallIds :
        LET call   == calls[c]
            games  == call.allGames
            player == toLowerCase(call.username)
        IN  /\ (call.kind = "history" /\ call.pc # "reduce" /\ call.pc # "idle") =>
                  /\ call.pc = "returned"
                  /\ \A k \in 1..Len(games) :
                        Malformed(games[k]) =>
                            reduceHistory(without(games, k), player) = call.result
            /\ betweenRejectsOnMalformed(call)

\* C30: fetchRapidHistory raises no error on a malformed record; the
\* record is skipped, the series being the one of the collection without
\* it, unless the participant it has is the requested handle with a numeric
\* rating: then it counts as any qualifying game, and gives the sample of
\* its day when every other qualifying game of the day ends before it.
\* fetchGamesBetween rejects on a malformed record.
C30_MalformedTolerated ==
    \A c \in CallIds :
        LET call   == calls[c]
            games  == call.allGames
            player == toLowerCase(call.username)
        IN  /\ (call.kind = "history" /\ call.pc # "reduce" /\ call.pc # "idle") =>
                  /\ call.pc = "returned"
                  /\ call.error = "none"
                  /\ \A k \in 1..Len(games) :
                        Malformed(games[k]) =>
                            IF ~Qualifies(games[k], player)
                            THEN reduceHistory(without(games, k), player) = call.result
                            ELSE (\A j \in sameDayGames(games, games[k], player) :
                                     games[j] = games[k]
                                        \/ games[j].end_time < games[k].end_time)
                                 => \E n \in 1..Len(call.result) :
                                      call.result[n] =
                                          [date   |-> toIsoDate(games[k].end_time),
                                           rating |-> ratingOf(games[k], player),
                                           epoch  |-> games[k].end_time]
            /\ betweenRejectsOnMalformed(call)

\* C30 witness: of a record without white whose black is "al" and a record
\* without black, fetchRapidHistory("al") has returned the sample of the
\* first
C30_Witness ==
    /\ calls["first"].kind = "history"
    /\ calls["first"].pc = "returned"
    /\ calls["first"].username = al
    /\ calls["first"].allGames = <<gNoWhite, gNoBlack>>
    /\ calls["first"].result =
          <<[date |-> toIsoDate(gNoWhite.end_time), rating |-> 1540,
             epoch |-> gNoWhite.end_time]>>

====
